---- MODULE Spec2Model ----
(***************************************************************************)
(* Model of the sentiment-analysis backend.                                *)
(*                                                                         *)
(* The batch dispatcher (backend/app/services/ml_service.py): the sizing   *)
(* policy, the partition of the text list into chunks, the semaphore-      *)
(* guarded chunk tasks, the retry loop of every request and the reassembly *)
(* of the chunk results; then the metrics engine (metrics_service.py), the *)
(* CSV parser (csv_service.py) and the routes with their database          *)
(* transactions (api/routes.py).                                           *)
(*                                                                         *)
(* The text list of a call is the list <<1, 2, .., total_texts>>: text i   *)
(* is tagged with its own index, so the state carries only its length.     *)
(* The inference service is the environment: it answers every request with *)
(* a result list, a connection-class failure or an HTTP error status.      *)
(***************************************************************************)
EXTENDS Integers, Sequences, FiniteSets, TLC

VARIABLES
    call,            \* entry point invoked: "batch" (analyze_batch_texts) or "single" (analyze_single_text)
    total_texts,     \* len(texts) of the call
    faulty,          \* environment: the requests (by chunk index) the service may fail or misanswer
    pc,              \* position of the caller coroutine
    batch_size,      \* local batch_size of analyze_batch_texts
    max_concurrent,  \* local max_concurrent of analyze_batch_texts
    num_batches,     \* local num_batches (0 while unassigned: the single-chunk path never assigns it)
    semaphore,       \* value of asyncio.Semaphore(max_concurrent)
    task,            \* the activations of the retry loop, by chunk index
    outcome,         \* what the call returned or raised
    pair,            \* two dispatch calls running in the same process, by call
    metric,          \* one call of calculate_macro_f1: its arguments and its result
    csv,             \* one call of parse_csv: the file, require_label and the result
    query,           \* one call of get_session_results: the rows, the parameters, the answer
    db,              \* the committed state of the database and of the blob store
    reqs,            \* the HTTP requests of the routes, by request number
    store            \* the MinIO client of the process, the bucket and the storage operations

\* the variables of the single dispatch call
dispatch_vars == <<call, total_texts, faulty, pc, batch_size, max_concurrent, num_batches,
                   semaphore, task, outcome>>

\* the variables of the other components
rest == <<pair, metric, csv, query, db, reqs, store>>

vars == <<dispatch_vars, rest>>

\* the value of a variable of a component that is not running
Unused == [pc |-> "unused"]

----------------------------------------------------------------------------
(* Program constants *)

MAX_RETRIES == 5
\* RETRY_DELAY = 3.0 seconds; every delay the code computes is a whole number of seconds
RETRY_DELAY == 3

(* Bounds of the model *)

\* largest number of chunks of one dispatch the service may fail or misanswer (Spec)
MaxFaulty == 2
\* largest text count of the sizing specification
MaxTotalTexts == 50100
\* the partition specification takes every text count up to this one
MaxSmallTexts == 210

\* text counts of the dispatches of Spec: every one-chunk shape, the tier
\* boundaries that stay below four chunks, and two- and three-chunk dispatches
DispatchSizes == {0, 1, 2, 200, 201, 500, 501, 1000, 1001, 2000, 2001, 10001}
\* text counts of SpecTier: 40001 texts are nine chunks under a tier of eight
TierSizes == {0, 200, 40001}
\* the chunks the service may fail or misanswer in SpecTier: none, the first,
\* the ninth (the one that waits for a slot), or both
TierFaulty == {{}, {0}, {8}, {0, 8}}
\* text counts of SpecPartition beyond MaxSmallTexts: around the chunk sizes, their
\* multiples and the tier boundaries
PartitionSizes ==
    {499, 500, 501, 999, 1000, 1001, 1999, 2000, 2001, 3999, 4000, 4001, 9999, 10000,
     10001, 14999, 15000, 15001, 40001, 49999, 50000, 50001, 60000, 60001}
\* HTTP error statuses the service answers with
ErrorStatuses == {422, 500}

----------------------------------------------------------------------------
(* Pure functions of ml_service.py *)

Min(a, b) == IF a <= b THEN a ELSE b

get_optimal_batch_size_exclusive(total) ==
    IF total < 200 THEN total
    ELSE IF total <= 1000 THEN 500
    ELSE IF total <= 10000 THEN 2000
    ELSE IF total <= 50000 THEN 5000
    ELSE 10000

get_optimal_batch_size(total) ==
    IF total <= 200 THEN total
    ELSE IF total <= 1000 THEN 500
    ELSE IF total <= 10000 THEN 2000
    ELSE IF total <= 50000 THEN 5000
    ELSE 10000

get_optimal_concurrency(total) ==
    IF total <= 200 THEN 1
    ELSE IF total <= 1000 THEN 2
    ELSE IF total <= 10000 THEN 5
    ELSE IF total <= 50000 THEN 8
    ELSE 10

\* the list `texts` of the call
Texts == [i \in 1..total_texts |-> i]

\* a slice that takes one element too many
Slice_inclusive(s, lo, hi) == SubSeq(s, lo + 1, Min(hi + 1, Len(s)))

\* Python s[lo:hi] for 0 <= lo <= hi
Slice(s, lo, hi) == SubSeq(s, lo + 1, Min(hi, Len(s)))

\* Python range(start, stop, step) as a list, step > 0
Range(start, stop, step) ==
    IF stop <= start THEN <<>>
    ELSE [k \in 1..((stop - start + step - 1) \div step) |-> start + (k - 1) * step]

\* batches = [texts[i:i + batch_size] for i in range(0, total_texts, batch_size)]
Batches(texts, size) ==
    LET starts == Range(0, Len(texts), size)
    IN  [k \in 1..Len(starts) |-> Slice(texts, starts[k], starts[k] + size)]

----------------------------------------------------------------------------
(* The inference service (environment) *)

\* the answer of the model for one text: label, label_name, confidence and
\* probabilities are functions of the text; confidence stands for the text's own score
ServiceResult(text) ==
    [label |-> text % 3, label_name |-> <<"neutral", "positive", "negative">>[(text % 3) + 1],
     confidence |-> text, probabilities |-> text, model |-> "v1"]

\* the "results" list of a 2xx answer to POST /predict-batch for `batch`:
\* positionally aligned, one result short, or one result too many
ServiceResults(batch, shape) ==
    LET aligned == [j \in 1..Len(batch) |-> ServiceResult(batch[j])]
    IN  IF shape = "aligned" THEN aligned
        ELSE IF shape = "short" THEN SubSeq(aligned, 1, Len(aligned) - 1)
        ELSE Append(aligned, ServiceResult(0))

OkReply(shape) == [kind |-> "ok", shape |-> shape, status |-> 200]
\* httpx.RequestError and its subclasses ConnectError, ReadError, TimeoutException
TransportError == [kind |-> "transport", shape |-> "", status |-> 0]
\* what response.raise_for_status() raises on a non-2xx answer
StatusError(status) == [kind |-> "status", shape |-> "", status |-> status]

\* the answers the service may give to a request of chunk i of a dispatch
BatchReplies(i) ==
    IF i \in faulty
    THEN {OkReply(sh) : sh \in {"aligned", "short", "long"}}
         \cup {TransportError} \cup {StatusError(st) : st \in ErrorStatuses}
    ELSE {OkReply("aligned")}

\* the answers the service may give to POST /predict
SingleReplies ==
    IF 0 \in faulty
    THEN {OkReply("aligned"), TransportError} \cup {StatusError(st) : st \in ErrorStatuses}
    ELSE {OkReply("aligned")}

----------------------------------------------------------------------------
(* The retry loop: _process_batch and analyze_single_text *)

\* one activation of the retry loop: slept lists the delays of its sleeps, replies
\* the answers it received, error is the message of the exception it raised
NewTask(batch_num) ==
    [pc |-> "waiting", batch_num |-> batch_num, attempt |-> 0, sent |-> 0,
     slept |-> <<>>, replies |-> <<>>, shape |-> "", error |-> <<>>]

\* await client.post(...): the request of the current attempt goes out
Post(t) == [t EXCEPT !.pc = "request", !.sent = @ + 1]

\* the copy of the four fields of one result
PickResult(r) ==
    [label |-> r.label, label_name |-> r.label_name,
     confidence |-> r.confidence, probabilities |-> r.probabilities]

\* the list _process_batch returns for a 2xx answer
BatchValue(batch, shape) ==
    LET results == ServiceResults(batch, shape)
    IN  [j \in 1..Len(results) |-> PickResult(results[j])]

\* f"ML service connection error for batch {batch_num} after {MAX_RETRIES} attempts: ..."
BatchConnectionError(batch_num) ==
    <<"ML service connection error for batch", batch_num, "after", MAX_RETRIES, "attempts">>

\* f"ML service connection error after {MAX_RETRIES} attempts: ..."
SingleConnectionError == <<"ML service connection error after", MAX_RETRIES, "attempts">>

\* f"ML service error: {e.response.status_code} - {e.response.text}"
ServiceError(status) == <<"ML service error:", status>>

\* one attempt more than MAX_RETRIES
LastAttempt_sixth(attempt) == attempt = MAX_RETRIES

\* the last attempt of the loop: for attempt in range(MAX_RETRIES)
LastAttempt(attempt) == attempt = MAX_RETRIES - 1

\* a constant delay
Backoff_constant(attempt) == RETRY_DELAY

\* asyncio.sleep(RETRY_DELAY * (attempt + 1))
Backoff(attempt) == RETRY_DELAY * (attempt + 1)

\* an HTTP error status retried like a connection failure
ProcessBatchStep_retry_status(t, r) ==
    IF r.kind = "ok"
    THEN [t EXCEPT !.pc = "done", !.shape = r.shape]
    ELSE IF LastAttempt(t.attempt)
    THEN [t EXCEPT !.pc = "failed",
                   !.error = IF r.kind = "transport" THEN BatchConnectionError(t.batch_num)
                             ELSE ServiceError(r.status)]
    ELSE [t EXCEPT !.pc = "backoff", !.slept = Append(@, Backoff(t.attempt))]

\* the body of the loop of _process_batch after the answer r of the service
ProcessBatchStep(t, r) ==
    IF r.kind = "ok"
    THEN [t EXCEPT !.pc = "done", !.shape = r.shape]
    ELSE IF r.kind = "transport"
    THEN IF LastAttempt(t.attempt)
         THEN [t EXCEPT !.pc = "failed", !.error = BatchConnectionError(t.batch_num)]
         ELSE [t EXCEPT !.pc = "backoff", !.slept = Append(@, Backoff(t.attempt))]
    ELSE [t EXCEPT !.pc = "failed", !.error = ServiceError(r.status)]

\* the body of the loop of analyze_single_text after the answer r of the service
SingleTextStep(t, r) ==
    IF r.kind = "ok"
    THEN [t EXCEPT !.pc = "done", !.shape = r.shape]
    ELSE IF r.kind = "transport"
    THEN IF LastAttempt(t.attempt)
         THEN [t EXCEPT !.pc = "failed", !.error = SingleConnectionError]
         ELSE [t EXCEPT !.pc = "backoff", !.slept = Append(@, Backoff(t.attempt))]
    ELSE [t EXCEPT !.pc = "failed", !.error = ServiceError(r.status)]

\* the sleep is over: the next iteration of the loop sends again
NextAttempt(t) == Post([t EXCEPT !.attempt = @ + 1])

Finished(t) == t.pc \in {"done", "failed"}

\* the answer r of the service reaches the activation
Receive(t, r) == [t EXCEPT !.replies = Append(@, r)]

----------------------------------------------------------------------------
(* analyze_batch_texts *)

Pending == [kind |-> "pending", parts |-> <<>>, error |-> <<>>]
\* parts: the chunk results the returned list is made of, in the order of the list
Returned(parts) == [kind |-> "returned", parts |-> parts, error |-> <<>>]
Raised(error) == [kind |-> "raised", parts |-> <<>>, error |-> error]

Part(t) == [batch_num |-> t.batch_num, shape |-> t.shape]

\* the single-chunk path for up to 200 texts only
FitsOneChunk_first_tier(n, size) == n <= 200

\* if total_texts <= batch_size: the single-chunk path
FitsOneChunk(n, size) == n <= size

\* the texts sent for chunk i: the whole list on the single-chunk path
BatchOf(i) == IF num_batches = 0 THEN Texts ELSE Batches(Texts, batch_size)[i + 1]

\* the slot given back when the chunk succeeded only
Released_on_success(t) == t.pc = "done"

\* async with semaphore: the slot is given back when _process_batch returns or raises
Released(t) == Finished(t)

\* a semaphore that never blocks
SemaphoreFree_always(value) == TRUE

\* async with semaphore: a free slot
SemaphoreFree(value) == value > 0

\* gather without return_exceptions: over at the first exception
GatherDone_first_exception(tasks) ==
    \/ \A i \in DOMAIN tasks : Finished(tasks[i])
    \/ \E i \in DOMAIN tasks : tasks[i].pc = "failed"

\* asyncio.gather(*tasks, return_exceptions=True) is over
GatherDone(tasks) == \A i \in DOMAIN tasks : Finished(tasks[i])

\* f"Error processing batch {i+1}/{num_batches}: {str(result)}"
BatchError(i, total, cause) == <<"Error processing batch", i + 1, "/", total, ":">> \o cause

\* the chunk results taken in reverse task order
CollectResults_reversed(results, total) ==
    LET failed == {i \in DOMAIN results : results[i].pc = "failed"}
    IN  IF failed # {}
        THEN LET i == CHOOSE j \in failed : \A k \in failed : j <= k
             IN  Raised(BatchError(i, total, results[i].error))
        ELSE Returned([k \in 1..total |-> Part(results[total - k])])

\* the failed chunks skipped instead of raised
CollectResults_skipping(results, total) ==
    LET ok == {i \in DOMAIN results : results[i].pc = "done"}
        RECURSIVE Parts(_)
        Parts(n) == IF n = 0 THEN <<>>
                    ELSE IF (n - 1) \in ok THEN Append(Parts(n - 1), Part(results[n - 1]))
                    ELSE Parts(n - 1)
    IN  Returned(Parts(total))

\* the last exception of the gathered results raised
CollectResults_last_failed(results, total) ==
    LET failed == {i \in DOMAIN results : results[i].pc = "failed"}
    IN  IF failed # {}
        THEN LET i == CHOOSE j \in failed : \A k \in failed : j >= k
             IN  Raised(BatchError(i, total, results[i].error))
        ELSE Returned([k \in 1..total |-> Part(results[k - 1])])

\* the loop over the gathered results: the first exception met is raised,
\* otherwise final_results is extended chunk after chunk
CollectResults(results, total) ==
    LET failed == {i \in DOMAIN results : results[i].pc = "failed"}
    IN  IF failed # {}
        THEN LET i == CHOOSE j \in failed : \A k \in failed : j <= k
             IN  Raised(BatchError(i, total, results[i].error))
        ELSE Returned([k \in 1..total |-> Part(results[k - 1])])

\* the single-chunk path hands on what _process_batch returned or raised
DirectResult(t) == IF t.pc = "failed" THEN Raised(t.error) ELSE Returned(<<Part(t)>>)

\* the list a returned call holds
RECURSIVE Extend(_, _)
Extend(parts, k) ==
    IF k = 0 THEN <<>>
    ELSE Extend(parts, k - 1) \o BatchValue(BatchOf(parts[k].batch_num), parts[k].shape)

FinalResults == Extend(outcome.parts, Len(outcome.parts))

----------------------------------------------------------------------------
(* Initial states *)

\* the chunk count of a dispatch over n texts (1 on the single-chunk path)
ChunkCount(n) ==
    IF n = 0 THEN 0
    ELSE IF n <= get_optimal_batch_size(n) THEN 1
    ELSE (n + get_optimal_batch_size(n) - 1) \div get_optimal_batch_size(n)

Idle ==
    /\ pc = "start"
    /\ batch_size = 0
    /\ max_concurrent = 0
    /\ num_batches = 0
    /\ semaphore = 0
    /\ task = <<>>
    /\ outcome = Pending

\* the other components do not run
RestIdle ==
    /\ pair = Unused
    /\ metric = Unused
    /\ csv = Unused
    /\ query = Unused
    /\ store = Unused
    /\ db = Unused
    /\ reqs = Unused

InitWith(sizes, faulty_sets) ==
    /\ \/ call = "batch" /\ total_texts \in sizes
       \/ call = "single" /\ total_texts = 1
    /\ faulty \in {f \cap (0..(ChunkCount(total_texts) - 1)) : f \in faulty_sets}
    /\ Idle
    /\ RestIdle

\* the largest chunk index of the dispatches of Spec
MaxBatchNum == 2

Init == InitWith(DispatchSizes, {f \in SUBSET (0..MaxBatchNum) : Cardinality(f) <= MaxFaulty})

InitTier == InitWith(TierSizes, TierFaulty)

InitSizing ==
    /\ call = "batch"
    /\ total_texts \in 0..MaxTotalTexts
    /\ faulty = {}
    /\ Idle
    /\ RestIdle

InitPartition ==
    /\ call = "batch"
    /\ total_texts \in (0..MaxSmallTexts) \cup PartitionSizes
    /\ faulty = {}
    /\ Idle
    /\ RestIdle

----------------------------------------------------------------------------
(* Actions *)

\* analyze_batch_texts up to the choice of the path: the empty list returns at once
Enter ==
    /\ call = "batch"
    /\ pc = "start"
    /\ IF total_texts = 0
       THEN /\ pc' = "returned"
            /\ outcome' = Returned(<<>>)
            /\ UNCHANGED <<batch_size, max_concurrent>>
       ELSE /\ pc' = "sized"
            /\ batch_size' = get_optimal_batch_size(total_texts)
            /\ max_concurrent' = get_optimal_concurrency(total_texts)
            /\ UNCHANGED outcome
    /\ UNCHANGED <<call, total_texts, faulty, num_batches, semaphore, task>>
    /\ UNCHANGED rest

\* total_texts <= batch_size: one call of _process_batch with batch_num = 0
SinglePath ==
    /\ pc = "sized"
    /\ FitsOneChunk(total_texts, batch_size)
    /\ task' = [i \in {0} |-> Post(NewTask(0))]
    /\ pc' = "await_batch"
    /\ UNCHANGED <<call, total_texts, faulty, batch_size, max_concurrent, num_batches,
                   semaphore, outcome>>
    /\ UNCHANGED rest

\* otherwise: the batches, the semaphore and one task per batch, then gather
MultiPath ==
    /\ pc = "sized"
    /\ ~FitsOneChunk(total_texts, batch_size)
    /\ num_batches' = Len(Batches(Texts, batch_size))
    /\ semaphore' = max_concurrent
    /\ task' = [i \in 0..(num_batches' - 1) |-> NewTask(i)]
    /\ pc' = "gather"
    /\ UNCHANGED <<call, total_texts, faulty, batch_size, max_concurrent, outcome>>
    /\ UNCHANGED rest

\* process_with_semaphore: task i takes a slot and _process_batch sends its first
\* request. The tasks start in list order and the waiters of the semaphore are
\* served first come first served, so the slots go to the tasks in index order.
Acquire(i) ==
    /\ pc = "gather"
    /\ task[i].pc = "waiting"
    /\ \A j \in DOMAIN task : j < i => task[j].pc # "waiting"
    /\ SemaphoreFree(semaphore)
    /\ semaphore' = semaphore - 1
    /\ task' = [task EXCEPT ![i] = Post(@)]
    /\ UNCHANGED <<call, total_texts, faulty, pc, batch_size, max_concurrent, num_batches,
                   outcome>>
    /\ UNCHANGED rest

\* the service answers the request of chunk i; when _process_batch returns or
\* raises inside process_with_semaphore, the slot is released
BatchReply(i, r) ==
    /\ pc \in {"await_batch", "gather"}
    /\ task[i].pc = "request"
    /\ task' = [task EXCEPT ![i] = ProcessBatchStep(Receive(@, r), r)]
    /\ semaphore' = IF pc = "gather" /\ Released(task'[i]) THEN semaphore + 1 ELSE semaphore
    /\ UNCHANGED <<call, total_texts, faulty, pc, batch_size, max_concurrent, num_batches,
                   outcome>>
    /\ UNCHANGED rest

\* the backoff sleep of chunk i is over
BatchWake(i) ==
    /\ pc \in {"await_batch", "gather"}
    /\ task[i].pc = "backoff"
    /\ task' = [task EXCEPT ![i] = NextAttempt(@)]
    /\ UNCHANGED <<call, total_texts, faulty, pc, batch_size, max_concurrent, num_batches,
                   semaphore, outcome>>
    /\ UNCHANGED rest

\* the single-chunk path returns the result of _process_batch or lets its exception through
AwaitBatch ==
    /\ pc = "await_batch"
    /\ Finished(task[0])
    /\ outcome' = DirectResult(task[0])
    /\ pc' = outcome'.kind
    /\ UNCHANGED <<call, total_texts, faulty, batch_size, max_concurrent, num_batches,
                   semaphore, task>>
    /\ UNCHANGED rest

\* gather is over: the results are collected in task order
AwaitGather ==
    /\ pc = "gather"
    /\ GatherDone(task)
    /\ outcome' = CollectResults(task, num_batches)
    /\ pc' = outcome'.kind
    /\ UNCHANGED <<call, total_texts, faulty, batch_size, max_concurrent, num_batches,
                   semaphore, task>>
    /\ UNCHANGED rest

(* analyze_single_text *)

\* the first request of analyze_single_text
SingleTextCall ==
    /\ call = "single"
    /\ pc = "start"
    /\ task' = [i \in {0} |-> Post(NewTask(0))]
    /\ pc' = "predict"
    /\ UNCHANGED <<call, total_texts, faulty, batch_size, max_concurrent, num_batches,
                   semaphore, outcome>>
    /\ UNCHANGED rest

\* the service answers: the result is returned, the error raised, or the loop sleeps
SingleTextReply(r) ==
    /\ pc = "predict"
    /\ task[0].pc = "request"
    /\ task' = [task EXCEPT ![0] = SingleTextStep(Receive(@, r), r)]
    /\ outcome' = IF Finished(task'[0]) THEN DirectResult(task'[0]) ELSE outcome
    /\ pc' = IF Finished(task'[0]) THEN outcome'.kind ELSE pc
    /\ UNCHANGED <<call, total_texts, faulty, batch_size, max_concurrent, num_batches,
                   semaphore>>
    /\ UNCHANGED rest

\* the backoff sleep of analyze_single_text is over
SingleTextWake ==
    /\ pc = "predict"
    /\ task[0].pc = "backoff"
    /\ task' = [task EXCEPT ![0] = NextAttempt(@)]
    /\ UNCHANGED <<call, total_texts, faulty, pc, batch_size, max_concurrent, num_batches,
                   semaphore, outcome>>
    /\ UNCHANGED rest

Next ==
    \/ Enter
    \/ SinglePath
    \/ MultiPath
    \/ \E i \in DOMAIN task : Acquire(i)
    \/ \E i \in DOMAIN task : \E r \in BatchReplies(i) : BatchReply(i, r)
    \/ \E i \in DOMAIN task : BatchWake(i)
    \/ AwaitBatch
    \/ AwaitGather
    \/ SingleTextCall
    \/ \E r \in SingleReplies : SingleTextReply(r)
    \/ SingleTextWake

\* the dispatches of at most three chunks and the single-text calls
Spec == Init /\ [][Next]_vars

\* the dispatches with more chunks than slots
SpecTier == InitTier /\ [][Next]_vars

\* every request is answered, every sleep ends and every task is scheduled
SpecFair == Init /\ [][Next]_vars /\ WF_vars(Next)

\* the same with more chunks than slots
SpecTierFair == InitTier /\ [][Next]_vars /\ WF_vars(Next)

\* the partition into chunks, up to the creation of the tasks
SpecPartition == InitPartition /\ [][Enter \/ SinglePath \/ MultiPath]_vars

\* the sizing policy over every text count up to MaxTotalTexts
SpecSizing == InitSizing /\ [][Enter]_vars

----------------------------------------------------------------------------
(* Properties *)

\* what the service's model answers for the texts of the call, text by text
Expected == [i \in 1..total_texts |-> PickResult(ServiceResult(Texts[i]))]

\* the chunks whose request is out or whose loop sleeps between two attempts
InFlight == {i \in DOMAIN task : task[i].pc \in {"request", "backoff"}}

\* the table of the sizing policy: <<chunk size, max concurrent chunks>>
TierTable(n) ==
    CASE n <= 200 -> <<n, 1>>
      [] n \in 201..1000 -> <<500, 2>>
      [] n \in 1001..10000 -> <<2000, 5>>
      [] n \in 10001..50000 -> <<5000, 8>>
      [] OTHER -> <<10000, 10>>

AllTransport(replies, n) == \A k \in 1..n : replies[k].kind = "transport"

\* C1: a dispatch that returns, every chunk answered positionally aligned,
\* returns at every index i the inference result of texts[i]
OrderPreserved ==
    (/\ call = "batch"
     /\ outcome.kind = "returned"
     /\ \A i \in DOMAIN task : task[i].shape = "aligned")
    => FinalResults = Expected

\* a three-chunk dispatch returned although its first chunk needed all five attempts
OrderPreservedWitness ==
    /\ call = "batch"
    /\ outcome.kind = "returned"
    /\ num_batches = 3
    /\ \A i \in DOMAIN task : task[i].shape = "aligned"
    /\ task[0].attempt = 4
    /\ task[2].attempt = 0

\* C2: a dispatch with a failed chunk raises and returns nothing; a dispatch
\* that returns holds the result of every chunk, each chunk having succeeded
NoPartialSuccess ==
    (call = "batch" /\ pc \in {"returned", "raised"})
    => /\ (\E i \in DOMAIN task : task[i].pc = "failed")
            => (outcome.kind = "raised" /\ outcome.parts = <<>> /\ pc = "raised")
       /\ outcome.kind = "returned"
            => /\ \A i \in DOMAIN task : task[i].pc = "done"
               /\ Len(outcome.parts) = Cardinality(DOMAIN task)
               /\ \A k \in 1..Len(outcome.parts) : outcome.parts[k] = Part(task[k - 1])

\* a dispatch raised with one chunk failed on an HTTP status and two chunks done
NoPartialSuccessWitness ==
    /\ call = "batch"
    /\ pc = "raised"
    /\ num_batches = 3
    /\ task[1].pc = "failed"
    /\ task[1].replies[Len(task[1].replies)].kind = "status"
    /\ task[0].pc = "done"
    /\ task[2].pc = "done"

\* C3: the chunks between acquiring and releasing the semaphore, those in
\* backoff included, never outnumber the concurrency tier of the table
AdmissionBound ==
    call = "batch" => Cardinality(InFlight) <= TierTable(total_texts)[2]

\* eight chunks hold the eight slots, one of them asleep, and the ninth waits
AdmissionBoundWitness ==
    /\ pc = "gather"
    /\ Cardinality(InFlight) = 8
    /\ task[0].pc = "backoff"
    /\ task[8].pc = "waiting"

\* C4: a retry loop sends at most 5 requests; every request but the first
\* follows a connection failure and a sleep of 3*k seconds after the k-th
\* failure; it fails with a connection error exactly after 5 connection
\* failures, without a fifth sleep; a success returns that attempt's answer
RetryPolicy ==
    \A i \in DOMAIN task :
        LET t == task[i]
            n == Len(t.replies)
        IN  /\ t.sent <= 5
            /\ t.sent = IF t.pc = "request" THEN n + 1 ELSE n
            /\ AllTransport(t.replies, n - 1)
            /\ t.pc \in {"request", "backoff"} => AllTransport(t.replies, n)
            /\ t.slept = [k \in 1..(IF t.pc = "backoff" THEN n ELSE t.sent - 1) |-> 3 * k]
            /\ t.pc = "backoff" => n <= 4
            /\ (t.pc = "failed" /\ t.error[1] \in {"ML service connection error for batch",
                                                  "ML service connection error after"})
                   <=> (n = 5 /\ AllTransport(t.replies, n))
            /\ t.pc = "done" <=> (n >= 1 /\ t.replies[n].kind = "ok")
            /\ t.pc = "done" => t.shape = t.replies[n].shape

\* a chunk failed with a connection error after five attempts and four sleeps
RetryPolicyWitness ==
    /\ call = "batch"
    /\ task # <<>>
    /\ task[0].pc = "failed"
    /\ task[0].sent = 5
    /\ task[0].slept = <<3, 6, 9, 12>>
    /\ task[0].error[1] = "ML service connection error for batch"

\* C5: an HTTP error status is the last answer a retry loop receives: the loop
\* has failed with the service error of that status and sends nothing more
StatusNeverRetried ==
    \A i \in DOMAIN task :
        \A k \in 1..Len(task[i].replies) :
            task[i].replies[k].kind = "status"
            => /\ k = Len(task[i].replies)
               /\ task[i].sent = k
               /\ task[i].pc = "failed"
               /\ task[i].error = <<"ML service error:", task[i].replies[k].status>>

\* a chunk got an HTTP error status on its third attempt, after two connection failures
StatusNeverRetriedWitness ==
    /\ call = "batch"
    /\ task # <<>>
    /\ task[0].pc = "failed"
    /\ Len(task[0].replies) = 3
    /\ task[0].replies[3].kind = "status"
    /\ task[0].sent = 3

\* C6: a chunk answered with a result list of another length than the chunk
\* makes the dispatch fail, and a returned list has exactly N results
LengthConsistency ==
    (call = "batch" /\ pc \in {"returned", "raised"})
    => /\ (\E i \in DOMAIN task : task[i].pc = "done" /\ task[i].shape # "aligned")
            => outcome.kind = "raised"
       /\ outcome.kind = "returned" => Len(FinalResults) = total_texts

\* C7: the chunk size and the concurrency chosen for N texts are those of the table
SizingPolicy ==
    pc = "sized" => <<batch_size, max_concurrent>> = TierTable(total_texts)

\* the sizes chosen at the upper end of the first tier
SizingPolicyWitness ==
    pc = "sized" /\ total_texts = 200 /\ batch_size = 200 /\ max_concurrent = 1

\* C8: the chunks of a dispatch are an ordered contiguous partition of texts:
\* concatenated in index order they are texts, each is non-empty and at most
\* chunk_size long, all but the last are chunk_size long, and there are
\* ceil(N/chunk_size) of them (1 for N = 1001, 3 for N = 10001)
RECURSIVE Concat(_, _)
Concat(chunks, n) == IF n = 0 THEN <<>> ELSE Concat(chunks, n - 1) \o chunks[n - 1]

ChunkPartition ==
    (call = "batch" /\ task # <<>>)
    => LET count == Cardinality(DOMAIN task)
           size == TierTable(total_texts)[1]
           chunks == [i \in DOMAIN task |-> BatchOf(i)]
       IN  /\ DOMAIN task = 0..(count - 1)
           /\ Concat(chunks, count) = Texts
           /\ \A i \in DOMAIN task :
                  /\ Len(chunks[i]) >= 1
                  /\ Len(chunks[i]) <= size
                  /\ i < count - 1 => Len(chunks[i]) = size
           /\ (count - 1) * size < total_texts
           /\ total_texts <= count * size
           /\ total_texts = 1001 => count = 1
           /\ total_texts = 10001 => count = 3

\* the three chunks of 10001 texts, the last of them a single text
ChunkPartitionWitness ==
    /\ call = "batch"
    /\ pc = "gather"
    /\ total_texts = 10001
    /\ DOMAIN task = 0..2
    /\ Len(BatchOf(2)) = 1

\* C9: the error of a failed dispatch names the index of a failed chunk and
\* the chunk count, on the single-chunk path too
FailureIdentified ==
    (call = "batch" /\ outcome.kind = "raised")
    => /\ Len(outcome.error) >= 4
       /\ outcome.error[1] = "Error processing batch"
       /\ \E i \in DOMAIN task : task[i].pc = "failed" /\ outcome.error[2] = i + 1
       /\ outcome.error[4] = Cardinality(DOMAIN task)

\* C10: on the multi-chunk path the dispatch ends only when every chunk has
\* been sent at least once and has finished, whatever chunks failed
NoCancellation ==
    (call = "batch" /\ num_batches > 0 /\ pc \in {"returned", "raised"})
    => \A i \in DOMAIN task : task[i].sent >= 1 /\ Finished(task[i])

\* the first chunk failed, and the ninth, admitted afterwards, was retried and answered
NoCancellationWitness ==
    /\ pc = "raised"
    /\ num_batches = 9
    /\ task[0].pc = "failed"
    /\ task[0].sent = 1
    /\ task[8].pc = "done"
    /\ task[8].sent = 3

HeldSlots == max_concurrent - semaphore

\* C26: on the multi-chunk path a chunk holds a slot from its first request to
\* its success or failure, its backoff sleeps included, and no slot leaks: a
\* dispatch that returned or raised holds none, and every waiting chunk is
\* admitted in the end
SlotLifetime ==
    /\ [](num_batches > 0
            => /\ HeldSlots = Cardinality(InFlight)
               /\ \A i \in DOMAIN task :
                      /\ task[i].pc = "waiting" => task[i].sent = 0
                      /\ Finished(task[i]) => task[i].sent >= 1
               /\ pc \in {"returned", "raised"} => HeldSlots = 0)
    /\ (\E i \in DOMAIN task : task[i].pc = "waiting")
           ~> (\A i \in DOMAIN task : task[i].pc # "waiting")

\* the ninth chunk waits while the first, asleep between two attempts, holds a slot
SlotLifetimeWitness ==
    /\ pc = "gather"
    /\ task[0].pc = "backoff"
    /\ task[0].sent = 2
    /\ task[8].pc = "waiting"
    /\ HeldSlots = 8
    /\ semaphore = 0

\* C27: the error of a multi-chunk dispatch names the lowest failed chunk, as
\* i+1 of num_batches, whatever the order the chunks failed in, and the
\* dispatch returns no result
LowestFailureReported ==
    (call = "batch" /\ num_batches > 0 /\ pc = "raised")
    => LET failed == {i \in DOMAIN task : task[i].pc = "failed"}
       IN  /\ failed # {}
           /\ outcome.error[1] = "Error processing batch"
           /\ \A k \in failed : outcome.error[2] <= k + 1
           /\ outcome.error[2] - 1 \in failed
           /\ outcome.error[4] = num_batches
           /\ outcome.parts = <<>>

\* chunks 2 and 3 of three failed, the third at once and the second after its
\* fifth attempt, the first succeeded: the error names chunk 2 of 3
LowestFailureReportedWitness ==
    /\ pc = "raised"
    /\ num_batches = 3
    /\ task[0].pc = "done"
    /\ task[1].pc = "failed"
    /\ task[1].sent = 5
    /\ task[2].pc = "failed"
    /\ task[2].sent = 1
    /\ outcome.error[2] = 2

\* the requests a dispatch has sent
RequestsSent == IF task = <<>> THEN 0 ELSE LET RECURSIVE Sum(_)
                                               Sum(n) == IF n < 0 THEN 0
                                                         ELSE task[n].sent + Sum(n - 1)
                                           IN  Sum(Cardinality(DOMAIN task) - 1)

\* C30: every dispatch returns or raises in the end, having sent at most
\* 5 * ceil(N / chunk_size) requests; over no text it returns the empty list
\* and sends nothing
DispatchTerminates ==
    /\ [](call = "batch"
            => /\ RequestsSent <= 5 * ChunkCount(total_texts)
               /\ (total_texts = 0 /\ pc # "start")
                      => (pc = "returned" /\ outcome = Returned(<<>>) /\ task = <<>>))
    /\ <>(pc \in {"returned", "raised"})

\* a dispatch of three chunks raised after 5 + 5 + 1 requests
DispatchTerminatesWitness ==
    /\ call = "batch"
    /\ pc = "raised"
    /\ num_batches = 3
    /\ task[0].sent = 5
    /\ task[1].sent = 5
    /\ RequestsSent = 11

----------------------------------------------------------------------------
(* Two calls of analyze_batch_texts running in the same event loop *)

\* the dispatcher variables do not move while another component runs
DispatchIdle ==
    /\ call = "batch"
    /\ total_texts = 0
    /\ faulty = {}
    /\ Idle

\* the text counts of the first and of the second call
PairSizesFirst == {40001}
PairSizesSecond == {0, 200, 501}

\* the frame of one call: its arguments and its local variables
NewCall(n, f) ==
    [total_texts |-> n, faulty |-> f, pc |-> "start", batch_size |-> 0,
     max_concurrent |-> 0, num_batches |-> 0, semaphore |-> 0, task |-> <<>>,
     outcome |-> Pending]

InitPair ==
    /\ \E n1 \in PairSizesFirst, n2 \in PairSizesSecond, f \in {{}, {0}} :
           pair = <<NewCall(n1, {}), NewCall(n2, f \cap (0..(ChunkCount(n2) - 1)))>>
    /\ metric = Unused
    /\ csv = Unused
    /\ query = Unused
    /\ store = Unused
    /\ db = Unused
    /\ reqs = Unused
    /\ DispatchIdle

PairUnchanged == UNCHANGED <<dispatch_vars, metric, csv, query, db, reqs, store>>

\* one semaphore for the whole process
PairSemaphore_shared(c) == 1

\* semaphore = asyncio.Semaphore(max_concurrent) is a local of the call c:
\* the frame that holds the semaphore the tasks of call c use
PairSemaphore(c) == c

PairTexts(c) == [i \in 1..pair[c].total_texts |-> i]

\* the answers the service may give to a request of chunk i of call c
PairReplies(c, i) ==
    IF i \in pair[c].faulty
    THEN {OkReply(sh) : sh \in {"aligned", "short", "long"}}
         \cup {TransportError} \cup {StatusError(st) : st \in ErrorStatuses}
    ELSE {OkReply("aligned")}

\* analyze_batch_texts of call c up to the choice of the path
PairEnter(c) ==
    /\ pair[c].pc = "start"
    /\ LET n == pair[c].total_texts
       IN  pair' = [pair EXCEPT ![c] =
               IF n = 0
               THEN [@ EXCEPT !.pc = "returned", !.outcome = Returned(<<>>)]
               ELSE [@ EXCEPT !.pc = "sized",
                              !.batch_size = get_optimal_batch_size(n),
                              !.max_concurrent = get_optimal_concurrency(n)]]
    /\ PairUnchanged

\* the single-chunk path of call c
PairSinglePath(c) ==
    /\ pair[c].pc = "sized"
    /\ FitsOneChunk(pair[c].total_texts, pair[c].batch_size)
    /\ pair' = [pair EXCEPT ![c] =
           [@ EXCEPT !.task = [i \in {0} |-> Post(NewTask(0))], !.pc = "await_batch"]]
    /\ PairUnchanged

\* the multi-chunk path of call c: its batches, its semaphore and its tasks
PairMultiPath(c) ==
    /\ pair[c].pc = "sized"
    /\ ~FitsOneChunk(pair[c].total_texts, pair[c].batch_size)
    /\ LET count == Len(Batches(PairTexts(c), pair[c].batch_size))
           made == [pair EXCEPT ![c] =
                       [@ EXCEPT !.num_batches = count,
                                 !.task = [i \in 0..(count - 1) |-> NewTask(i)],
                                 !.pc = "gather"]]
       IN  pair' = [made EXCEPT ![PairSemaphore(c)].semaphore = pair[c].max_concurrent]
    /\ PairUnchanged

\* task i of call c takes a slot of the semaphore of its call and sends
PairAcquire(c, i) ==
    /\ pair[c].pc = "gather"
    /\ pair[c].task[i].pc = "waiting"
    /\ \A j \in DOMAIN pair[c].task : j < i => pair[c].task[j].pc # "waiting"
    /\ SemaphoreFree(pair[PairSemaphore(c)].semaphore)
    /\ LET sent == [pair EXCEPT ![c].task[i] = Post(@)]
       IN  pair' = [sent EXCEPT ![PairSemaphore(c)].semaphore = @ - 1]
    /\ PairUnchanged

\* the service answers the request of chunk i of call c
PairBatchReply(c, i, r) ==
    /\ pair[c].pc \in {"await_batch", "gather"}
    /\ pair[c].task[i].pc = "request"
    /\ LET t == ProcessBatchStep(Receive(pair[c].task[i], r), r)
           got == [pair EXCEPT ![c].task[i] = t]
       IN  pair' = IF pair[c].pc = "gather" /\ Finished(t)
                   THEN [got EXCEPT ![PairSemaphore(c)].semaphore = @ + 1]
                   ELSE got
    /\ PairUnchanged

\* the backoff sleep of chunk i of call c is over
PairBatchWake(c, i) ==
    /\ pair[c].pc \in {"await_batch", "gather"}
    /\ pair[c].task[i].pc = "backoff"
    /\ pair' = [pair EXCEPT ![c].task[i] = NextAttempt(@)]
    /\ PairUnchanged

\* the single-chunk path of call c returns or raises
PairAwaitBatch(c) ==
    /\ pair[c].pc = "await_batch"
    /\ Finished(pair[c].task[0])
    /\ LET result == DirectResult(pair[c].task[0])
       IN  pair' = [pair EXCEPT ![c] = [@ EXCEPT !.outcome = result, !.pc = result.kind]]
    /\ PairUnchanged

\* the gather of call c is over
PairAwaitGather(c) ==
    /\ pair[c].pc = "gather"
    /\ GatherDone(pair[c].task)
    /\ LET result == CollectResults(pair[c].task, pair[c].num_batches)
       IN  pair' = [pair EXCEPT ![c] = [@ EXCEPT !.outcome = result, !.pc = result.kind]]
    /\ PairUnchanged

NextPair ==
    \/ \E c \in DOMAIN pair : PairEnter(c)
    \/ \E c \in DOMAIN pair : PairSinglePath(c)
    \/ \E c \in DOMAIN pair : PairMultiPath(c)
    \/ \E c \in DOMAIN pair : \E i \in DOMAIN pair[c].task : PairAcquire(c, i)
    \/ \E c \in DOMAIN pair : \E i \in DOMAIN pair[c].task :
           \E r \in PairReplies(c, i) : PairBatchReply(c, i, r)
    \/ \E c \in DOMAIN pair : \E i \in DOMAIN pair[c].task : PairBatchWake(c, i)
    \/ \E c \in DOMAIN pair : PairAwaitBatch(c)
    \/ \E c \in DOMAIN pair : PairAwaitGather(c)

\* two dispatch calls interleaved at their await points
SpecPair == InitPair /\ [][NextPair]_vars

\* the chunks of call c whose request is out or whose loop sleeps
PairInFlight(c) == {i \in DOMAIN pair[c].task : pair[c].task[i].pc \in {"request", "backoff"}}

\* C11: the semaphore belongs to one dispatch call: the free slots of a call
\* are its tier minus its own chunks in flight, whatever the other call does,
\* so each call stays within its own tier and the two calls together within
\* the sum of their tiers
SemaphorePerCall ==
    /\ \A c \in DOMAIN pair :
           /\ Cardinality(PairInFlight(c)) <= TierTable(pair[c].total_texts)[2]
           /\ pair[c].pc = "gather"
                  => pair[c].semaphore
                       = TierTable(pair[c].total_texts)[2] - Cardinality(PairInFlight(c))
    /\ Cardinality(PairInFlight(1)) + Cardinality(PairInFlight(2))
           <= TierTable(pair[1].total_texts)[2] + TierTable(pair[2].total_texts)[2]

\* ten chunks in flight at once, eight of the first call and two of the second:
\* more than the tier of either call
SemaphorePerCallWitness ==
    /\ Cardinality(PairInFlight(1)) = 8
    /\ Cardinality(PairInFlight(2)) = 2
    /\ pair[1].task[8].pc = "waiting"
    /\ pair[2].task[0].pc = "backoff"
    /\ Cardinality(PairInFlight(1)) + Cardinality(PairInFlight(2))
           > TierTable(pair[1].total_texts)[2]

----------------------------------------------------------------------------
(* MetricsService.calculate_macro_f1 *)

CLASS_LABELS == <<0, 1, 2>>
DECIMAL_PLACES == 4

\* the longest label arrays drawn
MaxLabels == 4

\* a float as the exact fraction num/den, den > 0; a value rounded to
\* DECIMAL_PLACES decimals as the integer count of its units of 10^-DECIMAL_PLACES
Frac(num, den) == [num |-> num, den |-> den]
Unit == 10 ^ DECIMAL_PLACES

\* zero_division=1
prf_divide_one(numerator, denominator) ==
    IF denominator = 0 THEN Frac(1, 1) ELSE Frac(numerator, denominator)

\* sklearn's _prf_divide with zero_division=0: the quotient, 0 where the denominator is 0
prf_divide(numerator, denominator) ==
    IF denominator = 0 THEN Frac(0, 1) ELSE Frac(numerator, denominator)

\* the counts of the multilabel confusion matrix for the label c
tp_sum(y_true, y_pred, c) ==
    Cardinality({i \in DOMAIN y_true : y_true[i] = c /\ y_pred[i] = c})
pred_sum(y_pred, c) == Cardinality({i \in DOMAIN y_pred : y_pred[i] = c})
true_sum(y_true, c) == Cardinality({i \in DOMAIN y_true : y_true[i] = c})

\* precision_recall_fscore_support(y_true, y_pred, labels=CLASS_LABELS,
\* average=None, zero_division=0): per label, in the order of CLASS_LABELS
precision_recall_fscore_support(y_true, y_pred) ==
    [i \in DOMAIN CLASS_LABELS |->
        LET c == CLASS_LABELS[i]
            tp == tp_sum(y_true, y_pred, c)
        IN  [precision |-> prf_divide(tp, pred_sum(y_pred, c)),
             recall |-> prf_divide(tp, true_sum(y_true, c)),
             f1 |-> prf_divide(2 * tp, true_sum(y_true, c) + pred_sum(y_pred, c))]]

\* the mean over the labels that occur in y_true or y_pred only
nanmean_present(scores, y_true, y_pred) ==
    LET present == {i \in DOMAIN scores :
                        true_sum(y_true, CLASS_LABELS[i]) + pred_sum(y_pred, CLASS_LABELS[i]) > 0}
        f(i) == IF i \in present THEN scores[i].f1 ELSE Frac(0, 1)
    IN  Frac(f(1).num * f(2).den * f(3).den + f(2).num * f(1).den * f(3).den
                 + f(3).num * f(1).den * f(2).den,
             Cardinality(present) * f(1).den * f(2).den * f(3).den)

\* np.nanmean(f1): no score is NaN under zero_division=0, so the mean of the three
nanmean(scores, y_true, y_pred) ==
    LET f(i) == scores[i].f1
    IN  Frac(f(1).num * f(2).den * f(3).den + f(2).num * f(1).den * f(3).den
                 + f(3).num * f(1).den * f(2).den,
             Len(scores) * f(1).den * f(2).den * f(3).den)

\* round(x, DECIMAL_PLACES): the nearest multiple of 10^-DECIMAL_PLACES, a tie to the even one
round(x) ==
    LET scaled == x.num * Unit
        floor == scaled \div x.den
        twice == 2 * (scaled % x.den)
    IN  IF twice < x.den THEN floor
        ELSE IF twice > x.den THEN floor + 1
        ELSE IF floor % 2 = 0 THEN floor ELSE floor + 1

calculate_macro_f1(y_true, y_pred) ==
    LET scores == precision_recall_fscore_support(y_true, y_pred)
        macro_f1 == nanmean(scores, y_true, y_pred)
    IN  [macro_f1 |-> round(macro_f1),
         class_metrics |->
             [i \in DOMAIN CLASS_LABELS |->
                 [class_label |-> CLASS_LABELS[i],
                  precision |-> round(scores[i].precision),
                  recall |-> round(scores[i].recall),
                  f1 |-> round(scores[i].f1)]]]

\* the label arrays of a call: equal lengths, labels of CLASS_LABELS
LabelArrays(n) == [1..n -> {CLASS_LABELS[i] : i \in DOMAIN CLASS_LABELS}]

InitMetrics ==
    /\ \/ \E n \in 1..MaxLabels : \E y_true \in LabelArrays(n), y_pred \in LabelArrays(n) :
              metric = [pc |-> "call", y_true |-> y_true, y_pred |-> y_pred,
                        result |-> [macro_f1 |-> 0, class_metrics |-> <<>>]]
       \/ metric = [pc |-> "call", y_true |-> <<0, 0, 1, 1, 2, 2>>,
                    y_pred |-> <<0, 0, 1, 1, 2, 2>>,
                    result |-> [macro_f1 |-> 0, class_metrics |-> <<>>]]
    /\ pair = Unused
    /\ csv = Unused
    /\ query = Unused
    /\ store = Unused
    /\ db = Unused
    /\ reqs = Unused
    /\ DispatchIdle

\* the call returns its dictionary
CalculateMacroF1 ==
    /\ metric.pc = "call"
    /\ metric' = [metric EXCEPT !.pc = "done",
                                !.result = calculate_macro_f1(metric.y_true, metric.y_pred)]
    /\ UNCHANGED <<dispatch_vars, pair, csv, query, db, reqs, store>>

SpecMetrics == InitMetrics /\ [][CalculateMacroF1]_vars

\* the counts of the definition of the metrics for the label c
TP(c) == Cardinality({i \in DOMAIN metric.y_true : metric.y_true[i] = c /\ metric.y_pred[i] = c})
FP(c) == Cardinality({i \in DOMAIN metric.y_true : metric.y_true[i] # c /\ metric.y_pred[i] = c})
FN(c) == Cardinality({i \in DOMAIN metric.y_true : metric.y_true[i] = c /\ metric.y_pred[i] # c})

\* P = TP/(TP+FP), R = TP/(TP+FN), F1 = 2PR/(P+R), each 0 when its denominator is 0
ExactPrecision(c) == IF TP(c) + FP(c) = 0 THEN Frac(0, 1) ELSE Frac(TP(c), TP(c) + FP(c))
ExactRecall(c) == IF TP(c) + FN(c) = 0 THEN Frac(0, 1) ELSE Frac(TP(c), TP(c) + FN(c))
ExactF1(c) ==
    LET p == ExactPrecision(c)
        r == ExactRecall(c)
    IN  IF p.num * r.den + r.num * p.den = 0 THEN Frac(0, 1)
        ELSE Frac(2 * p.num * r.num, p.num * r.den + r.num * p.den)

\* value, in units of 10^-4, is a multiple of 10^-4 nearest to the fraction x
Nearest(value, x) ==
    /\ 2 * (value * x.den - x.num * Unit) <= x.den
    /\ 2 * (x.num * Unit - value * x.den) <= x.den

\* (F1_0 + F1_1 + F1_2) / 3
ExactMacro ==
    LET f(c) == ExactF1(c)
    IN  Frac(f(0).num * f(1).den * f(2).den + f(1).num * f(0).den * f(2).den
                 + f(2).num * f(0).den * f(1).den,
             3 * f(0).den * f(1).den * f(2).den)

\* the sum of the three f1 values of class_metrics
ReturnedF1Sum ==
    metric.result.class_metrics[1].f1 + metric.result.class_metrics[2].f1
        + metric.result.class_metrics[3].f1

\* C12 as stated: macro_f1 lies in [0,1] and is the mean of the three f1
\* values returned in class_metrics
MacroIsMeanOfReturned ==
    metric.pc = "done"
    => /\ metric.result.macro_f1 \in 0..Unit
       /\ 3 * metric.result.macro_f1 = ReturnedF1Sum

\* C12 amended: macro_f1 lies in [0,1] and is the mean of the three per-class
\* F1 values before their rounding, rounded to 4 decimals; it is within 0.0001
\* of the mean of the three rounded f1 values returned in class_metrics
MacroIsRoundedMean ==
    metric.pc = "done"
    => /\ metric.result.macro_f1 \in 0..Unit
       /\ Nearest(metric.result.macro_f1, ExactMacro)
       /\ 3 * metric.result.macro_f1 - ReturnedF1Sum \in -3..3

\* y_true = [0,0,1], y_pred = [0,1,1]: f1 = 0.6667, 0.6667, 0 and macro_f1 = 0.4444
MacroIsRoundedMeanWitness ==
    /\ metric.pc = "done"
    /\ metric.y_true = <<0, 0, 1>>
    /\ metric.y_pred = <<0, 1, 1>>
    /\ metric.result.class_metrics[1].f1 = 6667
    /\ metric.result.class_metrics[2].f1 = 6667
    /\ metric.result.class_metrics[3].f1 = 0
    /\ metric.result.macro_f1 = 4444

\* C13: every call returns; for each label precision, recall and f1 are
\* TP/(TP+FP), TP/(TP+FN) and 2PR/(P+R) rounded, 0 where the denominator is 0;
\* a label absent from both arrays gets 0 three times and still is one of the
\* three terms of the mean; [0,0,1,1,2,2] against itself gives 1.0 everywhere
ZeroDenominatorRule ==
    /\ metric.pc = "call"
           => calculate_macro_f1(metric.y_true, metric.y_pred).macro_f1 \in 0..Unit
    /\ metric.pc = "done"
       => /\ \A i \in 1..3 :
                 LET c == i - 1
                     m == metric.result.class_metrics[i]
                 IN  /\ m.class_label = c
                     /\ Nearest(m.precision, ExactPrecision(c))
                     /\ Nearest(m.recall, ExactRecall(c))
                     /\ Nearest(m.f1, ExactF1(c))
                     /\ TP(c) + FP(c) = 0 => m.precision = 0
                     /\ TP(c) + FN(c) = 0 => m.recall = 0
                     /\ TP(c) = 0 => m.f1 = 0
                     /\ TP(c) + FP(c) + FN(c) = 0
                            => /\ m.precision = 0 /\ m.recall = 0 /\ m.f1 = 0
                               /\ 3 * metric.result.macro_f1 <= 2 * Unit + 1
          /\ (metric.y_true = <<0, 0, 1, 1, 2, 2>> /\ metric.y_pred = metric.y_true)
                 => /\ metric.result.macro_f1 = Unit
                    /\ \A i \in 1..3 :
                           /\ metric.result.class_metrics[i].precision = Unit
                           /\ metric.result.class_metrics[i].recall = Unit
                           /\ metric.result.class_metrics[i].f1 = Unit

\* y_true = [0,1], y_pred = [0,0]: label 1 is never predicted, label 2 is absent
ZeroDenominatorRuleWitness ==
    /\ metric.pc = "done"
    /\ metric.y_true = <<0, 1>>
    /\ metric.y_pred = <<0, 0>>
    /\ metric.result.class_metrics[1].f1 = 6667
    /\ metric.result.class_metrics[2].precision = 0
    /\ metric.result.class_metrics[2].f1 = 0
    /\ metric.result.class_metrics[3].recall = 0
    /\ metric.result.macro_f1 = 2222

----------------------------------------------------------------------------
(* CSVService.parse_csv *)

VALID_LABELS == {0, 1, 2}
MAX_TEXT_LENGTH == 10000

\* the most data rows of a drawn file
MaxRows == 2

\* Python's None, the NULL of a nullable column, a key a record does not hold
None == -1

\* a cell of the text column: blank (NaN or whitespace only) or a string of
\* len characters; value stands for the characters
TextCell(kind, len, value) == [kind |-> kind, len |-> len, value |-> value]
BlankText == TextCell("blank", 0, 0)

\* a cell of the src column: NaN or a string, value standing for the characters
SrcCell(kind, value) == [kind |-> kind, value |-> value]

\* a cell of the label column: NaN, a number (or a string float() parses) given
\* in tenths, an infinity, or a string float() does not parse
LabelCell(kind, tenths) == [kind |-> kind, tenths |-> tenths]

\* a file: what reading and decoding it does, the lower-cased header, the data rows
File(fault, columns, rows) == [fault |-> fault, columns |-> columns, rows |-> rows]

\* int(float(label_value)) of a number: the fraction is cut off, towards zero
int_float(tenths) == IF tenths >= 0 THEN tenths \div 10 ELSE -((-tenths) \div 10)

\* HTTPException(status_code, detail={"error": {"code", "message", "row"}})
CsvError(status, code, row) ==
    [kind |-> "error", status |-> status, code |-> code, row |-> row,
     data |-> <<>>, skipped_rows |-> <<>>]

\* return data, skipped_rows
CsvOk(data, skipped_rows) ==
    [kind |-> "ok", status |-> 200, code |-> "", row |-> None,
     data |-> data, skipped_rows |-> skipped_rows]

\* the loop over df.iterrows() from the data index idx on
RECURSIVE ParseRows(_, _, _, _, _)
ParseRows(file, require_label, idx, data, skipped_rows) ==
    IF idx >= Len(file.rows) THEN CsvOk(data, skipped_rows)
    ELSE
    LET row == file.rows[idx + 1]
        row_num == idx + 2
        src == IF "src" \in file.columns
               THEN (IF row.src.kind = "nan" THEN 0 ELSE row.src.value)
               ELSE None
        label_int == int_float(row.label.tenths)
        accept(label) ==
            ParseRows(file, require_label, idx + 1,
                      Append(data, [text |-> row.text.value, src |-> src, label |-> label]),
                      skipped_rows)
    IN  IF row.text.kind = "blank"
        THEN ParseRows(file, require_label, idx + 1, data, Append(skipped_rows, row_num))
        ELSE IF row.text.len > MAX_TEXT_LENGTH
        THEN CsvError(400, "INVALID_CSV", row_num)
        ELSE IF "label" \notin file.columns
        THEN accept(None)
        ELSE IF row.label.kind = "nan"
        THEN (IF require_label THEN CsvError(400, "INVALID_LABELS", row_num) ELSE accept(None))
        ELSE IF row.label.kind = "str"
        THEN CsvError(400, "INVALID_LABELS", row_num)
        ELSE IF row.label.kind = "inf"
        THEN CsvError(500, "PREDICTION_FAILED", None)
        ELSE IF label_int \notin VALID_LABELS
        THEN CsvError(400, "INVALID_LABELS", row_num)
        ELSE accept(label_int)

parse_csv(file, require_label) ==
    IF file.fault = "oversized" THEN CsvError(400, "INVALID_CSV", None)
    ELSE IF file.fault = "encoding" THEN CsvError(400, "INVALID_ENCODING", None)
    ELSE IF file.fault = "empty" THEN CsvError(400, "INVALID_CSV", None)
    ELSE IF "text" \notin file.columns THEN CsvError(400, "INVALID_CSV", None)
    ELSE IF require_label /\ "label" \notin file.columns THEN CsvError(400, "INVALID_CSV", None)
    ELSE ParseRows(file, require_label, 0, <<>>, <<>>)

\* the cells drawn for a column, NaN alone for a column the header does not hold
TextCells(columns) ==
    IF "text" \in columns
    THEN {BlankText, TextCell("text", 1, 1), TextCell("text", MAX_TEXT_LENGTH + 1, 2)}
    ELSE {BlankText}
SrcCells(columns) ==
    IF "src" \in columns THEN {SrcCell("nan", 0), SrcCell("str", 1)} ELSE {SrcCell("nan", 0)}
LabelCells(columns) ==
    IF "label" \in columns
    THEN {LabelCell("nan", 0), LabelCell("str", 0), LabelCell("inf", 0)}
         \cup {LabelCell("num", t) : t \in {-5, 10, 15, 50}}
    ELSE {LabelCell("nan", 0)}

Rows(columns) ==
    [text : TextCells(columns), src : SrcCells(columns), label : LabelCells(columns)]

\* the files that cannot be read, and the files of n data rows under a header
UnreadableFiles == {File(fault, {}, <<>>) : fault \in {"oversized", "encoding", "empty"}}
Files(columns, n) == {File("none", columns, rows) : rows \in [1..n -> Rows(columns)]}

InitCsv ==
    /\ \E require_label \in BOOLEAN :
           \/ \E file \in UnreadableFiles :
                  csv = [pc |-> "call", file |-> file, require_label |-> require_label,
                         result |-> CsvOk(<<>>, <<>>)]
           \/ \E columns \in SUBSET {"text", "src", "label"}, n \in 0..MaxRows :
                  \E file \in Files(columns, n) :
                      csv = [pc |-> "call", file |-> file, require_label |-> require_label,
                             result |-> CsvOk(<<>>, <<>>)]
    /\ pair = Unused
    /\ metric = Unused
    /\ query = Unused
    /\ store = Unused
    /\ db = Unused
    /\ reqs = Unused
    /\ DispatchIdle

\* the call returns its two lists or raises its HTTPException
ParseCsv ==
    /\ csv.pc = "call"
    /\ csv' = [csv EXCEPT !.pc = "done", !.result = parse_csv(csv.file, csv.require_label)]
    /\ UNCHANGED <<dispatch_vars, pair, metric, query, db, reqs, store>>

SpecCsv == InitCsv /\ [][ParseCsv]_vars

\* a label cell that denotes an integer of {0, 1, 2}
DenotesValidLabel(cell) == cell.kind = "num" /\ cell.tenths \in {0, 10, 20}

\* the data rows the loop reaches: not blank, behind no row that stops the loop
RowsPassed(file, require_label) ==
    {k \in 1..Len(file.rows) :
        /\ file.rows[k].text.kind # "blank"
        /\ \A j \in 1..k :
               /\ file.rows[j].text.kind # "blank" => file.rows[j].text.len <= MAX_TEXT_LENGTH
               /\ j < k => \/ file.rows[j].text.kind = "blank"
                           \/ file.rows[j].label.kind = "nan" /\ ~require_label
                           \/ DenotesValidLabel(file.rows[j].label)}

\* C19: parse_csv accepts a non-missing label if and only if it denotes an
\* integer of {0,1,2} and records that integer; any other non-missing label the
\* loop reaches rejects the file with INVALID_LABELS and the row data index + 2
LabelValidation ==
    (/\ csv.pc = "done"
     /\ csv.file.fault = "none"
     /\ {"text", "label"} \subseteq csv.file.columns)
    => LET rows == csv.file.rows
           passed == RowsPassed(csv.file, csv.require_label)
           offending == {k \in passed : /\ rows[k].label.kind # "nan"
                                        /\ ~DenotesValidLabel(rows[k].label)}
       IN  /\ offending # {}
               => /\ csv.result.kind = "error"
                  /\ csv.result.code = "INVALID_LABELS"
                  /\ \E k \in offending : csv.result.row = (k - 1) + 2
           /\ csv.result.kind = "ok"
               => \A k \in passed :
                      rows[k].label.kind # "nan"
                      => /\ DenotesValidLabel(rows[k].label)
                         /\ \E i \in DOMAIN csv.result.data :
                                /\ csv.result.data[i].text = rows[k].text.value
                                /\ csv.result.data[i].label * 10 = rows[k].label.tenths

----------------------------------------------------------------------------
(* get_session_results: the filters, the count and the page *)

\* the most rows of the table text_analyses drawn for a query
MaxQueryRows == 2

\* a row of text_analyses; its id is its position in the table. text is a
\* sequence of characters; source is None, 0 for the empty string or the number
\* of a string; confidence is given in tenths
QueryRow(session_id, text, pred_label, confidence, source) ==
    [session_id |-> session_id, text |-> text, pred_label |-> pred_label,
     confidence |-> confidence, source |-> source]

\* lower(c) of a character
Lower(c) == IF c = "A" THEN "a" ELSE IF c = "B" THEN "b" ELSE c

\* text LIKE pattern from the positions i of the text and j of the pattern on,
\* case-insensitively: % stands for any characters, _ for any one character
RECURSIVE Like(_, _, _, _)
Like(text, pattern, i, j) ==
    IF j > Len(pattern) THEN i > Len(text)
    ELSE IF pattern[j] = "%"
    THEN \E k \in i..(Len(text) + 1) : Like(text, pattern, k, j + 1)
    ELSE /\ i <= Len(text)
         /\ pattern[j] = "_" \/ Lower(pattern[j]) = Lower(text[i])
         /\ Like(text, pattern, i + 1, j + 1)

\* TextAnalysis.text.ilike(f"%{search}%")
ilike(text, search) == Like(text, <<"%">> \o search \o <<"%">>, 1, 1)

\* the WHERE clause of the query for one row; a comparison with NULL is not true
Where(row, session_id, p) ==
    /\ row.session_id = session_id
    /\ p.pred_label # None => row.pred_label = p.pred_label
    /\ p.min_confidence # None => (row.confidence # None /\ row.confidence >= p.min_confidence)
    /\ p.max_confidence # None => (row.confidence # None /\ row.confidence <= p.max_confidence)
    /\ (p.source # None /\ p.source # 0) => row.source = p.source
    /\ p.search # <<>> => ilike(row.text, p.search)

\* the ids of the rows in id order, from a set of ids
RECURSIVE SortedIds(_)
SortedIds(ids) ==
    IF ids = {} THEN <<>>
    ELSE LET least == CHOOSE i \in ids : \A j \in ids : i <= j
         IN  <<least>> \o SortedIds(ids \ {least})

\* query.order_by(TextAnalysis.id).limit(limit).offset(offset)
LimitOffset(ids, limit, offset) ==
    SubSeq(ids, offset + 1, Min(offset + limit, Len(ids)))

\* the answer of get_session_results for a session that exists:
\* the ids of "results" in order, and "total"
get_session_results(rows, session_id, p) ==
    LET matching == {i \in DOMAIN rows : Where(rows[i], session_id, p)}
    IN  [results |-> LimitOffset(SortedIds(matching), p.limit, p.offset),
         total |-> Cardinality(matching)]

\* the rows drawn: predicted and not, with and without source
QueryRows ==
    {QueryRow(1, text, pl[1], pl[2], source) :
        text \in {<<"a", "B">>, <<"b">>},
        pl \in {<<0, 5>>, <<None, None>>},
        source \in {None, 0, 1}}
    \cup {QueryRow(2, <<"a", "B">>, 0, 5, 1)}

\* the query parameters drawn; search <<>> is the empty or the missing parameter
QueryParams ==
    [limit : {1, 2}, offset : {0, 1}, pred_label : {None, 0},
     min_confidence : {None, 6}, max_confidence : {None, 4},
     source : {None, 0, 1}, search : {<<>>, <<"A">>, <<"_">>}]

InitQuery ==
    /\ \E n \in 0..MaxQueryRows : \E rows \in [1..n -> QueryRows] : \E p \in QueryParams :
           query = [pc |-> "call", rows |-> rows, session_id |-> 1, params |-> p,
                   response |-> [results |-> <<>>, total |-> 0]]
    /\ pair = Unused
    /\ metric = Unused
    /\ csv = Unused
    /\ db = Unused
    /\ reqs = Unused
    /\ store = Unused
    /\ DispatchIdle

\* the request is answered
GetSessionResults ==
    /\ query.pc = "call"
    /\ query' = [query EXCEPT
           !.pc = "done",
           !.response = get_session_results(query.rows, query.session_id, query.params)]
    /\ UNCHANGED <<dispatch_vars, pair, metric, csv, db, reqs, store>>

SpecQuery == InitQuery /\ [][GetSessionResults]_vars

\* the search string occurs in the text, whatever the case of the letters
ContainsIgnoringCase(text, search) ==
    \E i \in 1..(Len(text) - Len(search) + 1) :
        \A k \in 1..Len(search) : Lower(text[i + k - 1]) = Lower(search[k])

\* the row satisfies every filter the request supplies
SatisfiesFilters(row, session_id, p) ==
    /\ row.session_id = session_id
    /\ p.pred_label # None => row.pred_label = p.pred_label
    /\ p.min_confidence # None => (row.confidence # None /\ row.confidence >= p.min_confidence)
    /\ p.max_confidence # None => (row.confidence # None /\ row.confidence <= p.max_confidence)
    /\ p.source # None => row.source = p.source
    /\ p.search # <<>> => ContainsIgnoringCase(row.text, p.search)

\* C20: the results are the rows of the session that satisfy every supplied
\* filter, in id order, cut to [offset, offset+limit); total counts the rows
\* that satisfy the filters whatever limit and offset are; the pages at the
\* offsets 0, limit, 2*limit, ... hold every matching row exactly once
QueryResults ==
    query.pc = "done"
    => LET p == query.params
           matching == {i \in DOMAIN query.rows :
                            SatisfiesFilters(query.rows[i], query.session_id, p)}
           page(k) == get_session_results(query.rows, query.session_id,
                                          [p EXCEPT !.offset = k * p.limit]).results
           pages == (Cardinality(matching) + p.limit - 1) \div p.limit
       IN  /\ query.response.total = Cardinality(matching)
           /\ query.response.results
                  = [k \in 1..(Min(p.offset + p.limit, Cardinality(matching)) - p.offset) |->
                        SortedIds(matching)[p.offset + k]]
           /\ \A i \in matching :
                  Cardinality({<<k, j>> \in (0..(pages - 1)) \X (1..p.limit) :
                                  j <= Len(page(k)) /\ page(k)[j] = i}) = 1

----------------------------------------------------------------------------
(* The routes and their database transactions *)

\* the most requests of a run
MaxRequests == 2

\* settings.max_batch_size
max_batch_size == 100000

\* the repetitions of its rows that put a file of one row over max_batch_size
ManyCopies == 100001

\* the tables analysis_sessions and text_analyses as committed, the sequence the
\* session ids come from, and the blobs of the object store; the id of a row
\* is its position in rows
EmptyDb ==
    [sessions |-> {}, session_seq |-> 0, rows |-> <<>>,
     predictions |-> <<>>, validations |-> <<>>]

\* TextAnalysis(session_id, text, source, true_label, pred_label, confidence)
TextAnalysis(session_id, text, source, true_label, pred_label, confidence) ==
    [session_id |-> session_id, text |-> text, source |-> source,
     true_label |-> true_label, pred_label |-> pred_label, confidence |-> confidence]

\* detail="..." and detail={"error": {"code": ..., "row": ...}} of an HTTPException
PlainDetail(text) == [structured |-> FALSE, text |-> text, row |-> None]
StructuredDetail(code, row) == [structured |-> TRUE, text |-> code, row |-> row]

\* a request: its route and parameters, what it holds across the await of the
\* dispatch (loaded: the ids of the rows fetched, data: the parsed records,
\* texts: the list sent), its response, and what it did (inferences: calls of
\* analyze_batch_texts, received: the length of the list they returned,
\* written: ids of the rows it committed, created: ids of the sessions it
\* committed, saved: blobs it stored)
IdleRequest ==
    [route |-> "", pc |-> "idle", session_id |-> None, result_id |-> None, file |-> None,
     loaded |-> <<>>, data |-> <<>>, skipped_rows |-> <<>>, texts |-> <<>>,
     new_session |-> None, true_labels |-> <<>>,
     status |-> 0, detail |-> PlainDetail(""), count |-> None, macro_f1 |-> None,
     inferences |-> 0, received |-> None, written |-> {}, created |-> {}, saved |-> 0]

\* the request raises HTTPException(status_code, detail): the session is closed
\* without a commit
Fail(r, status, detail) == [r EXCEPT !.pc = "done", !.status = status, !.detail = detail]

\* the request returns its response
Succeed(r, count) == [r EXCEPT !.pc = "done", !.status = 200, !.count = count]

\* a lookup that finds every session
get_session_or_404_found(d, session_id) == TRUE

\* get_session_or_404: TRUE when the session exists, the 404 is raised otherwise
get_session_or_404(d, session_id) == session_id \in d.sessions

SessionNotFound == PlainDetail("Session with ID not found")

\* select(TextAnalysis).where(TextAnalysis.session_id == session_id): the ids
SessionRows(d, session_id) ==
    SortedIds({k \in DOMAIN d.rows : d.rows[k].session_id = session_id})

\* what analyze_batch_texts(texts) may do on the single-chunk path: return the
\* list _process_batch made of the service's answer, or raise
AnalyzeReturned(value) == [kind |-> "returned", value |-> value]
AnalyzeRaised == [kind |-> "raised", value |-> <<>>]
AnalyzeOutcomes(texts) ==
    IF texts = <<>> THEN {AnalyzeReturned(<<>>)}
    ELSE {AnalyzeReturned(BatchValue(texts, shape)) : shape \in {"aligned", "short", "long"}}
         \cup {AnalyzeRaised}

\* the predicted label recorded without its confidence
SetPrediction_label_only(row, pred_result) == [row EXCEPT !.pred_label = pred_result.label]

\* pred_label = pred_result['label'], confidence = pred_result['confidence']
SetPrediction(row, pred_result) ==
    [row EXCEPT !.pred_label = pred_result.label, !.confidence = pred_result.confidence]

\* zip(a, b) stops at the shorter list: its length
ZipLen(a, b) == Min(Len(a), Len(b))

\* the files of the requests: two good rows (one labelled), no text column,
\* not UTF-8, a label out of range, blank rows only
RouteFiles ==
    {File("none", {"text", "src", "label"},
          <<[text |-> TextCell("text", 1, 1), src |-> SrcCell("str", 1),
             label |-> LabelCell("num", 10)],
            [text |-> TextCell("text", 1, 2), src |-> SrcCell("nan", 0),
             label |-> LabelCell("nan", 0)]>>),
     File("none", {"text", "label"},
          <<[text |-> TextCell("text", 1, 4), src |-> SrcCell("nan", 0),
             label |-> LabelCell("num", 20)]>>),
     File("none", {"src", "label"},
          <<[text |-> BlankText, src |-> SrcCell("str", 1), label |-> LabelCell("num", 10)]>>),
     File("encoding", {}, <<>>),
     File("none", {"text", "label"},
          <<[text |-> TextCell("text", 1, 1), src |-> SrcCell("nan", 0),
             label |-> LabelCell("num", 50)]>>),
     File("none", {"text"},
          <<[text |-> BlankText, src |-> SrcCell("nan", 0), label |-> LabelCell("nan", 0)]>>)}

\* the session and result ids of the requests: the last of each is never allocated
SessionIds == {1, 2, 9}
ResultIds == {1, 2, 9}

InitRoutes ==
    /\ db = EmptyDb
    /\ reqs = [i \in 1..MaxRequests |-> IdleRequest]
    /\ pair = Unused
    /\ metric = Unused
    /\ csv = Unused
    /\ query = Unused
    /\ store = Unused
    /\ DispatchIdle

\* the request i arrives: the requests are numbered in the order of their arrival
Arrives(i) ==
    /\ reqs[i].pc = "idle"
    /\ \A j \in 1..(i - 1) : reqs[j].pc # "idle"

RoutesUnchanged == UNCHANGED <<dispatch_vars, pair, metric, csv, query, store>>

\* the rows /upload adds for the parsed records: no prediction yet
UploadedRows(sid, data) ==
    [k \in DOMAIN data |->
        TextAnalysis(sid, data[k].text, data[k].src, data[k].label, None, None)]

\* POST /upload
UploadCsv(i, file) ==
    /\ Arrives(i)
    /\ LET r == [reqs[i] EXCEPT !.route = "upload", !.file = file]
           parsed == parse_csv(file, FALSE)
           sid == db.session_seq + 1
           rows == UploadedRows(sid, parsed.data)
       IN  IF parsed.kind = "error"
           THEN /\ reqs' = [reqs EXCEPT ![i] =
                                Fail(r, parsed.status, StructuredDetail(parsed.code, parsed.row))]
                /\ UNCHANGED db
           ELSE IF parsed.data = <<>>
           THEN /\ reqs' = [reqs EXCEPT ![i] = Fail(r, 400, PlainDetail("CSV file is empty"))]
                /\ UNCHANGED db
           ELSE /\ db' = [db EXCEPT !.sessions = @ \cup {sid}, !.session_seq = sid,
                                    !.rows = @ \o rows]
                /\ reqs' = [reqs EXCEPT ![i] =
                                Succeed([r EXCEPT !.data = parsed.data, !.new_session = sid,
                                                  !.created = {sid},
                                                  !.written = {Len(db.rows) + k : k \in DOMAIN rows}],
                                        Len(parsed.data))]
    /\ RoutesUnchanged

\* POST /batch-analyze up to the await of analyze_batch_texts
BatchAnalyzeBegin(i, session_id) ==
    /\ Arrives(i)
    /\ LET r == [reqs[i] EXCEPT !.route = "batch_analyze", !.session_id = session_id]
           text_analyses == SessionRows(db, session_id)
       IN  reqs' = [reqs EXCEPT ![i] =
               IF ~get_session_or_404(db, session_id) THEN Fail(r, 404, SessionNotFound)
               ELSE IF text_analyses = <<>> THEN Fail(r, 400, PlainDetail("No texts in session"))
               ELSE [r EXCEPT !.pc = "dispatch", !.loaded = text_analyses,
                              !.texts = [k \in DOMAIN text_analyses |->
                                            db.rows[text_analyses[k]].text],
                              !.inferences = @ + 1]]
    /\ UNCHANGED db
    /\ RoutesUnchanged

\* the predictions of the first chunk committed before the dispatch is over
BatchAnalyzeCommit_by_chunk(d, r, result) ==
    [d EXCEPT !.rows[r.loaded[1]] =
                  SetPrediction(@, IF result.value = <<>> THEN ServiceResult(r.texts[1])
                                   ELSE result.value[1])]

\* the database after batch_analyze: the prediction of every zipped row is set
\* and committed (an UPDATE of the two columns), or the exception of the
\* dispatch closes the session with nothing written
BatchAnalyzeCommit(d, r, result) ==
    LET predictions == result.value
        zipped == 1..ZipLen(r.loaded, predictions)
    IN  IF result.kind = "raised" THEN d
        ELSE [d EXCEPT !.rows =
                 [k \in DOMAIN d.rows |->
                     IF \E z \in zipped : r.loaded[z] = k
                     THEN LET z == CHOOSE y \in zipped : r.loaded[y] = k
                          IN  SetPrediction(d.rows[k], predictions[z])
                     ELSE d.rows[k]]]

\* POST /batch-analyze from the end of analyze_batch_texts on: the exception
\* goes through, or the zipped rows are updated and committed
BatchAnalyzeFinish(i, result) ==
    /\ reqs[i].route = "batch_analyze"
    /\ reqs[i].pc = "dispatch"
    /\ LET r == reqs[i]
           predictions == result.value
           zipped == 1..ZipLen(r.loaded, predictions)
       IN  IF result.kind = "raised"
           THEN /\ reqs' = [reqs EXCEPT ![i] = Fail(r, 500, PlainDetail("Internal Server Error"))]
                /\ db' = BatchAnalyzeCommit(db, r, result)
           ELSE /\ db' = BatchAnalyzeCommit(db, r, result)
                /\ reqs' = [reqs EXCEPT ![i] =
                                Succeed([r EXCEPT !.received = Len(predictions),
                                                  !.written = {r.loaded[z] : z \in zipped}],
                                        Len(r.loaded))]
    /\ RoutesUnchanged

\* a new true label that drops the prediction of the row
SetTrueLabel_reset(row, true_label) ==
    [row EXCEPT !.true_label = true_label, !.pred_label = None, !.confidence = None]

\* text_analysis.true_label = true_label
SetTrueLabel(row, true_label) == [row EXCEPT !.true_label = true_label]

\* PUT /results/{result_id}
UpdateResult(i, result_id, true_label) ==
    /\ Arrives(i)
    /\ LET r == [reqs[i] EXCEPT !.route = "update_result", !.result_id = result_id]
       IN  IF result_id \notin DOMAIN db.rows
           THEN /\ reqs' = [reqs EXCEPT ![i] = Fail(r, 404, PlainDetail("Result not found"))]
                /\ UNCHANGED db
           ELSE /\ db' = [db EXCEPT !.rows[result_id] = SetTrueLabel(@, true_label)]
                /\ reqs' = [reqs EXCEPT ![i] =
                                Succeed([r EXCEPT !.written = {result_id},
                                                  !.true_labels = <<true_label>>], None)]
    /\ RoutesUnchanged

\* GET /sessions/{id}/results, /sessions/{id}/stats, /export-csv, /export-json:
\* the rows of the session are read and counted
ReadSession(i, route, session_id) ==
    /\ Arrives(i)
    /\ LET r == [reqs[i] EXCEPT !.route = route, !.session_id = session_id]
       IN  reqs' = [reqs EXCEPT ![i] =
               IF ~get_session_or_404(db, session_id) THEN Fail(r, 404, SessionNotFound)
               ELSE Succeed([r EXCEPT !.loaded = SessionRows(db, session_id)],
                            Len(SessionRows(db, session_id)))]
    /\ UNCHANGED db
    /\ RoutesUnchanged

\* text_preprocessing_service.normalize: runs of whitespace become one blank
\* and the ends are stripped; an even number stands for a text in that form
normalize(text) == text - (text % 2)

\* the texts sent to the dispatcher
Preprocessed(texts, enable_preprocessing) ==
    IF enable_preprocessing THEN [k \in DOMAIN texts |-> normalize(texts[k])] ELSE texts

\* a flush that commits the session
Flush_autocommit(d, sid) == [d EXCEPT !.session_seq = sid, !.sessions = @ \cup {sid}]

\* session.add(analysis_session); await session.flush(): the INSERT runs in the
\* open transaction, visible to no other session, and takes the id from the sequence
Flush(d, sid) == [d EXCEPT !.session_seq = sid]

\* POST /predict up to the await of analyze_batch_texts: the session is added
\* and flushed, which takes its id from the sequence. The file holds the rows
\* of file, copies times over.
PredictCsvBegin(i, file, copies, enable_preprocessing) ==
    /\ Arrives(i)
    /\ LET r == [reqs[i] EXCEPT !.route = "predict", !.file = file]
           parsed == parse_csv(file, FALSE)
           sid == db.session_seq + 1
           texts == [k \in DOMAIN parsed.data |-> parsed.data[k].text]
       IN  IF parsed.kind = "error"
           THEN /\ reqs' = [reqs EXCEPT ![i] =
                                Fail(r, parsed.status, StructuredDetail(parsed.code, parsed.row))]
                /\ UNCHANGED db
           ELSE IF parsed.data = <<>>
           THEN /\ reqs' = [reqs EXCEPT ![i] = Fail(r, 400, PlainDetail("CSV file is empty"))]
                /\ UNCHANGED db
           ELSE /\ db' = Flush(db, sid)
                /\ reqs' = [reqs EXCEPT ![i] =
                       IF Len(texts) * copies > max_batch_size
                       THEN Fail(r, 400, PlainDetail("batch size over the maximum"))
                       ELSE [r EXCEPT !.pc = "dispatch", !.data = parsed.data,
                                      !.skipped_rows = parsed.skipped_rows,
                                      !.new_session = sid,
                                      !.texts = Preprocessed(texts, enable_preprocessing),
                                      !.inferences = @ + 1]]
    /\ RoutesUnchanged

\* POST /predict from the end of analyze_batch_texts on: the zipped rows are
\* committed with the session, then the predictions are stored as a blob
PredictCsvFinish(i, result, stored) ==
    /\ reqs[i].route = "predict"
    /\ reqs[i].pc = "dispatch"
    /\ LET r == reqs[i]
           predictions == result.value
           rows == [k \in 1..ZipLen(r.data, predictions) |->
                       SetPrediction(TextAnalysis(r.new_session, r.data[k].text, r.data[k].src,
                                                  r.data[k].label, None, None),
                                     predictions[k])]
           done == [r EXCEPT !.received = Len(predictions),
                             !.created = {r.new_session},
                             !.written = {Len(db.rows) + k : k \in DOMAIN rows}]
       IN  IF result.kind = "raised"
           THEN /\ reqs' = [reqs EXCEPT ![i] = Fail(r, 500, PlainDetail("Internal Server Error"))]
                /\ UNCHANGED db
           ELSE /\ db' = [db EXCEPT !.sessions = @ \cup {r.new_session},
                                    !.rows = @ \o rows,
                                    !.predictions =
                                        IF stored THEN Append(@, [rows_count |-> Len(rows)])
                                        ELSE @]
                /\ reqs' = [reqs EXCEPT ![i] =
                       IF stored THEN Succeed([done EXCEPT !.saved = 1], Len(r.data))
                       ELSE Fail(done, 500, PlainDetail("Internal Server Error"))]
    /\ RoutesUnchanged

\* POST /validate with a file, up to the await of analyze_batch_texts
ValidateCsvBegin(i, file, enable_preprocessing) ==
    /\ Arrives(i)
    /\ LET r == [reqs[i] EXCEPT !.route = "validate", !.file = file]
           parsed == parse_csv(file, TRUE)
           texts == [k \in DOMAIN parsed.data |-> parsed.data[k].text]
           true_labels == [k \in DOMAIN parsed.data |-> parsed.data[k].label]
       IN  reqs' = [reqs EXCEPT ![i] =
               IF parsed.kind = "error"
               THEN Fail(r, parsed.status, StructuredDetail(parsed.code, parsed.row))
               ELSE IF parsed.data = <<>>
               THEN Fail(r, 400, PlainDetail("CSV file is empty"))
               ELSE IF \E k \in DOMAIN true_labels : true_labels[k] = None
               THEN Fail(r, 400, PlainDetail("All rows must have 'label' column for validation"))
               ELSE IF Len(texts) > max_batch_size
               THEN Fail(r, 400, PlainDetail("batch size over the maximum"))
               ELSE [r EXCEPT !.pc = "dispatch", !.data = parsed.data,
                              !.skipped_rows = parsed.skipped_rows,
                              !.true_labels = true_labels,
                              !.texts = Preprocessed(texts, enable_preprocessing),
                              !.inferences = @ + 1]]
    /\ UNCHANGED db
    /\ RoutesUnchanged

\* storage_service.save_validation: the failure of the store is logged only
save_validation(d, validation_data, stored) ==
    IF stored THEN [d EXCEPT !.validations = Append(@, validation_data)] ELSE d

\* POST /validate with a file, from the end of analyze_batch_texts on
ValidateCsvFinish(i, result, stored) ==
    /\ reqs[i].route = "validate"
    /\ reqs[i].pc = "dispatch"
    /\ LET r == reqs[i]
           pred_labels == [k \in DOMAIN result.value |-> result.value[k].label]
           metrics == calculate_macro_f1(r.true_labels, pred_labels)
           got == [r EXCEPT !.received = Len(pred_labels)]
       IN  IF result.kind = "raised"
           THEN /\ reqs' = [reqs EXCEPT ![i] = Fail(r, 500, PlainDetail("Internal Server Error"))]
                /\ UNCHANGED db
           ELSE IF Len(r.true_labels) # Len(pred_labels)
           THEN /\ reqs' = [reqs EXCEPT ![i] = Fail(got, 500, PlainDetail("Label count mismatch"))]
                /\ UNCHANGED db
           ELSE /\ db' = save_validation(db, [macro_f1 |-> metrics.macro_f1,
                                              rows_count |-> Len(r.data),
                                              skipped_rows |-> r.skipped_rows], stored)
                /\ reqs' = [reqs EXCEPT ![i] =
                                Succeed([got EXCEPT !.macro_f1 = metrics.macro_f1,
                                                    !.saved = IF stored THEN 1 ELSE 0],
                                        Len(r.data))]
    /\ RoutesUnchanged

\* the rows of the session with a true label and a predicted label: the ids
LabelledRows(d, session_id) ==
    SortedIds({k \in DOMAIN d.rows : /\ d.rows[k].session_id = session_id
                                     /\ d.rows[k].true_label # None
                                     /\ d.rows[k].pred_label # None})

\* POST /validate with a session id (save TRUE: the metrics are stored) and
\* POST /validate-session (save FALSE)
ValidateStored(i, route, session_id, save, stored) ==
    /\ Arrives(i)
    /\ LET r == [reqs[i] EXCEPT !.route = route, !.session_id = session_id]
           text_analyses == LabelledRows(db, session_id)
           y_true == [k \in DOMAIN text_analyses |-> db.rows[text_analyses[k]].true_label]
           y_pred == [k \in DOMAIN text_analyses |-> db.rows[text_analyses[k]].pred_label]
           metrics == calculate_macro_f1(y_true, y_pred)
       IN  IF ~get_session_or_404(db, session_id)
           THEN /\ reqs' = [reqs EXCEPT ![i] = Fail(r, 404, SessionNotFound)]
                /\ UNCHANGED db
           ELSE IF text_analyses = <<>>
           THEN /\ reqs' = [reqs EXCEPT ![i] =
                                Fail(r, 400, PlainDetail("No rows with true_label and pred_label"))]
                /\ UNCHANGED db
           ELSE /\ db' = IF save
                         THEN save_validation(db, [macro_f1 |-> metrics.macro_f1,
                                                   rows_count |-> Len(text_analyses),
                                                   skipped_rows |-> <<>>], stored)
                         ELSE db
                /\ reqs' = [reqs EXCEPT ![i] =
                                Succeed([r EXCEPT !.loaded = text_analyses,
                                                  !.macro_f1 = metrics.macro_f1,
                                                  !.saved = IF save /\ stored THEN 1 ELSE 0],
                                        Len(text_analyses))]
    /\ RoutesUnchanged

ValidateCsvSession(i, session_id, stored) ==
    ValidateStored(i, "validate", session_id, TRUE, stored)

ValidateSession(i, session_id) ==
    ValidateStored(i, "validate_session", session_id, FALSE, FALSE)

ReadRoutes == {"results", "stats", "export_csv", "export_json"}

NextRoutes ==
    \/ \E i \in DOMAIN reqs : \E file \in RouteFiles : UploadCsv(i, file)
    \/ \E i \in DOMAIN reqs : \E session_id \in SessionIds : BatchAnalyzeBegin(i, session_id)
    \/ \E i \in DOMAIN reqs : \E result \in AnalyzeOutcomes(reqs[i].texts) :
           BatchAnalyzeFinish(i, result)
    \/ \E i \in DOMAIN reqs : \E result_id \in ResultIds, true_label \in {0, 2} :
           UpdateResult(i, result_id, true_label)
    \/ \E i \in DOMAIN reqs : \E route \in ReadRoutes, session_id \in SessionIds :
           ReadSession(i, route, session_id)
    \/ \E i \in DOMAIN reqs : \E file \in RouteFiles, enable_preprocessing \in BOOLEAN :
           \E copies \in {1, ManyCopies} : PredictCsvBegin(i, file, copies, enable_preprocessing)
    \/ \E i \in DOMAIN reqs : \E result \in AnalyzeOutcomes(reqs[i].texts), stored \in BOOLEAN :
           PredictCsvFinish(i, result, stored)
    \/ \E i \in DOMAIN reqs : \E file \in RouteFiles, enable_preprocessing \in BOOLEAN :
           ValidateCsvBegin(i, file, enable_preprocessing)
    \/ \E i \in DOMAIN reqs : \E result \in AnalyzeOutcomes(reqs[i].texts), stored \in BOOLEAN :
           ValidateCsvFinish(i, result, stored)
    \/ \E i \in DOMAIN reqs : \E session_id \in SessionIds, stored \in BOOLEAN :
           ValidateCsvSession(i, session_id, stored)
    \/ \E i \in DOMAIN reqs : \E session_id \in SessionIds : ValidateSession(i, session_id)

\* the requests of the routes, interleaved at the await of the dispatch
SpecRoutes == InitRoutes /\ [][NextRoutes]_vars

\* the texts the inference service is asked about in the runs of the routes
ServiceTexts == 0..4

\* C14: in every state of the database each row has pred_label and confidence
\* both null or both set, and a set pair is the label and the confidence of one
\* result of the inference service
PredictionPair ==
    \A k \in DOMAIN db.rows :
        LET row == db.rows[k]
        IN  /\ row.pred_label = None <=> row.confidence = None
            /\ row.pred_label # None
                   => \E t \in ServiceTexts :
                          /\ row.pred_label = ServiceResult(t).label
                          /\ row.confidence = ServiceResult(t).confidence

\* an uploaded session after its batch-analyze: one row with its pair, one with none
PredictionPairWitness ==
    /\ reqs[1].route = "upload"
    /\ reqs[2].route = "batch_analyze"
    /\ reqs[2].status = 200
    /\ Len(db.rows) = 2
    /\ db.rows[1].pred_label = 1
    /\ db.rows[1].confidence = 1
    /\ db.rows[2].pred_label = None
    /\ db.rows[2].confidence = None

\* C15: a request of batch-analyze, /predict or /validate whose dispatch
\* returned another number of predictions than texts sent fails and persists
\* nothing, and the count a request reports is the number of rows that got a
\* prediction
RouteConsistency ==
    \A i \in DOMAIN reqs :
        LET r == reqs[i]
        IN  (r.pc = "done" /\ r.route \in {"batch_analyze", "predict", "validate"}
                 /\ r.received # None)
            => /\ r.received # Len(r.texts)
                   => /\ r.status >= 400
                      /\ r.written = {} /\ r.created = {} /\ r.saved = 0
               /\ (r.status = 200 /\ r.route \in {"batch_analyze", "predict"})
                   => r.count = Cardinality(r.written)

\* C16: after a successful batch-analyze every row of the session holds the
\* label and the confidence the service gives for the row's own text
PositionalAlignment ==
    \A i \in DOMAIN reqs :
        (reqs[i].route = "batch_analyze" /\ reqs[i].pc = "done" /\ reqs[i].status = 200)
        => \A k \in DOMAIN db.rows :
               db.rows[k].session_id = reqs[i].session_id
               => /\ db.rows[k].pred_label = ServiceResult(db.rows[k].text).label
                  /\ db.rows[k].confidence = ServiceResult(db.rows[k].text).confidence

\* the routes that take the id of a session
SessionRoutes ==
    {"batch_analyze", "validate", "validate_session"} \cup ReadRoutes

\* C17: a request for a session or a result that does not exist is answered
\* with 404, calls no inference and commits nothing
NotFoundReported ==
    \A i \in DOMAIN reqs :
        LET r == reqs[i]
            missing == \/ /\ r.route \in SessionRoutes
                          /\ r.session_id # None
                          /\ r.session_id \notin db.sessions
                       \/ /\ r.route = "update_result"
                          /\ r.result_id \notin DOMAIN db.rows
        IN  missing => /\ r.pc = "done"
                       /\ r.status = 404
                       /\ r.inferences = 0
                       /\ r.written = {} /\ r.created = {} /\ r.saved = 0

\* with one session uploaded, a batch-analyze of the session 9 was answered 404
NotFoundReportedWitness ==
    /\ db.sessions = {1}
    /\ reqs[2].route = "batch_analyze"
    /\ reqs[2].session_id = 9
    /\ reqs[2].status = 404
    /\ reqs[2].inferences = 0

\* C18: an upload that is rejected fails with a structured error (code and
\* message) and creates no session and no row
RejectedUpload ==
    \A i \in DOMAIN reqs :
        (reqs[i].route = "upload" /\ reqs[i].pc = "done" /\ reqs[i].status # 200)
        => /\ reqs[i].status >= 400
           /\ reqs[i].detail.structured
           /\ reqs[i].created = {}
           /\ reqs[i].written = {}

----------------------------------------------------------------------------
(* batch-analyze and update_result on a stored session *)

\* the file the stored session was uploaded from: two rows, the first labelled
SessionFile ==
    File("none", {"text", "src", "label"},
         <<[text |-> TextCell("text", 1, 1), src |-> SrcCell("str", 1),
            label |-> LabelCell("num", 10)],
           [text |-> TextCell("text", 1, 2), src |-> SrcCell("nan", 0),
            label |-> LabelCell("nan", 0)]>>)

\* the database after one /upload of SessionFile
InitSession ==
    /\ db = [EmptyDb EXCEPT !.sessions = {1}, !.session_seq = 1,
                            !.rows = UploadedRows(1, parse_csv(SessionFile, FALSE).data)]
    /\ reqs = [i \in 1..MaxRequests |-> IdleRequest]
    /\ pair = Unused
    /\ metric = Unused
    /\ csv = Unused
    /\ query = Unused
    /\ store = Unused
    /\ DispatchIdle

NextSession ==
    \/ \E i \in DOMAIN reqs : \E session_id \in SessionIds : BatchAnalyzeBegin(i, session_id)
    \/ \E i \in DOMAIN reqs : \E result \in AnalyzeOutcomes(reqs[i].texts) :
           BatchAnalyzeFinish(i, result)
    \/ \E i \in DOMAIN reqs : \E result_id \in ResultIds, true_label \in 0..2 :
           UpdateResult(i, result_id, true_label)

\* requests of batch-analyze and update_result on one uploaded session
SpecSession == InitSession /\ [][NextSession]_vars

\* the request i is answered in this step
Answered(i) == reqs[i].pc # "done" /\ reqs'[i].pc = "done"

\* C21: update_result on an existing row succeeds with or without a prediction
\* on the row and changes the true_label of that row only; the commit of a
\* batch-analyze leaves every true_label, text and source as it finds them, so
\* that after an update_result and a batch-analyze of the same row, interleaved
\* or not, the row holds the patched true_label and a prediction
TrueLabelIndependence ==
    /\ [][\A i \in DOMAIN reqs :
             /\ (Answered(i) /\ reqs'[i].route = "update_result"
                     /\ reqs'[i].result_id \in DOMAIN db.rows)
                => /\ reqs'[i].status = 200
                   /\ db' = [db EXCEPT !.rows[reqs'[i].result_id].true_label =
                                           reqs'[i].true_labels[1]]
             /\ (Answered(i) /\ reqs'[i].route = "batch_analyze")
                => /\ DOMAIN db'.rows = DOMAIN db.rows
                   /\ \A k \in DOMAIN db.rows :
                          /\ db'.rows[k].true_label = db.rows[k].true_label
                          /\ db'.rows[k].text = db.rows[k].text
                          /\ db'.rows[k].source = db.rows[k].source
                          /\ db'.rows[k].session_id = db.rows[k].session_id
                          /\ k \notin reqs'[i].written => db'.rows[k] = db.rows[k]]_vars
    /\ [](\A i, j \in DOMAIN reqs :
             (/\ reqs[i].route = "update_result" /\ reqs[i].status = 200
              /\ reqs[j].route = "batch_analyze" /\ reqs[j].status = 200
              /\ reqs[i].result_id \in reqs[j].written)
             => LET row == db.rows[reqs[i].result_id]
                IN  /\ row.true_label \in
                           {reqs[u].true_labels[1] :
                               u \in {v \in DOMAIN reqs :
                                         /\ reqs[v].route = "update_result"
                                         /\ reqs[v].status = 200
                                         /\ reqs[v].result_id = reqs[i].result_id}}
                    /\ row.pred_label # None
                    /\ row.confidence # None)

\* the batch-analyze arrived first and the true label of the second row, null
\* at the upload, was patched: the row holds the patch and its prediction
TrueLabelIndependenceWitness ==
    /\ reqs[1].route = "batch_analyze"
    /\ reqs[1].status = 200
    /\ reqs[2].route = "update_result"
    /\ reqs[2].status = 200
    /\ reqs[2].result_id = 2
    /\ db.rows[2].true_label = 0
    /\ db.rows[2].pred_label = 2
    /\ db.rows[2].confidence = 2
    /\ db.rows[1].true_label = 1

\* C28: batch-analyze writes nothing before its dispatch is over, and a
\* dispatch that raised leaves the database as it was: the predictions and the
\* true labels recorded before stay
AllOrNothing ==
    /\ [][\A i \in DOMAIN reqs :
             /\ (reqs[i].pc = "idle" /\ reqs'[i].route = "batch_analyze") => db' = db
             /\ (Answered(i) /\ reqs'[i].route = "batch_analyze" /\ reqs'[i].status # 200)
                => db' = db]_vars
    /\ [](\A i \in DOMAIN reqs :
             (reqs[i].route = "batch_analyze" /\ (reqs[i].pc = "dispatch" \/ reqs[i].status # 200))
             => reqs[i].written = {})

\* the second batch-analyze of the session raised in its dispatch: the
\* predictions of the first are still there
AllOrNothingWitness ==
    /\ reqs[1].route = "batch_analyze"
    /\ reqs[1].status = 200
    /\ reqs[2].route = "batch_analyze"
    /\ reqs[2].status = 500
    /\ reqs[2].inferences = 1
    /\ db.rows[1].pred_label = 1
    /\ db.rows[1].confidence = 1
    /\ db.rows[1].true_label = 1
    /\ db.rows[2].pred_label = 2

\* what the other sessions see of the database: the committed tables and the blobs
Visible(d) ==
    [sessions |-> d.sessions, rows |-> d.rows,
     predictions |-> d.predictions, validations |-> d.validations]

\* C29: /predict makes nothing visible before its dispatch has returned, and a
\* request whose batch is over max_batch_size or whose dispatch raised leaves
\* no session, no row and no prediction artifact; every row /predict commits
\* has its pred_label and confidence
PredictPersistsNothing ==
    /\ [][\A i \in DOMAIN reqs :
             /\ (reqs[i].pc = "idle" /\ reqs'[i].route = "predict")
                => Visible(db') = Visible(db)
             /\ (Answered(i) /\ reqs'[i].route = "predict" /\ reqs'[i].received = None)
                => Visible(db') = Visible(db)]_vars
    /\ [](\A i \in DOMAIN reqs :
             LET r == reqs[i]
             IN  r.route = "predict"
                 => /\ (r.pc = "dispatch" \/ (r.pc = "done" /\ r.received = None))
                       => /\ r.created = {} /\ r.written = {} /\ r.saved = 0
                          /\ r.new_session \notin db.sessions
                          /\ \A k \in DOMAIN db.rows : db.rows[k].session_id # r.new_session
                    /\ (r.pc = "done" /\ r.received = None) => r.status >= 400
                    /\ \A k \in r.written : /\ db.rows[k].pred_label # None
                                            /\ db.rows[k].confidence # None)

\* one /predict was over max_batch_size and another met a failed dispatch,
\* both after the flush of their session: the database shows nothing
PredictPersistsNothingWitness ==
    /\ reqs[1].route = "predict"
    /\ reqs[1].status = 400
    /\ reqs[1].detail = PlainDetail("batch size over the maximum")
    /\ reqs[2].route = "predict"
    /\ reqs[2].status = 500
    /\ reqs[2].inferences = 1
    /\ reqs[2].new_session = 2
    /\ db.session_seq = 2
    /\ Visible(db) = Visible(EmptyDb)

----------------------------------------------------------------------------
(* MinIOService, StorageService and the start of the application *)

\* the most artifacts saved in a run
MaxArtifacts == 2

\* the names ml_service.py binds at module level
ml_service_names ==
    {"logging", "asyncio", "httpx", "time", "settings", "logger", "MAX_RETRIES", "RETRY_DELAY",
     "get_optimal_batch_size", "get_optimal_concurrency", "analyze_single_text",
     "_process_batch", "analyze_batch_texts", "get_sentiment_stats"}

\* from module import name: ImportError unless the module binds the name
ImportFrom(names, name) == name \in names

\* import app.main: main.py imports app.api.routes and app.core.db, and db.py
\* line 7 is `from app.services.ml_service import ml_service`
ImportApp == ImportFrom(ml_service_names, "ml_service")

NoAnswer == [status |-> 0, body |-> "", database_up |-> FALSE]

\* health_check: SELECT 1 on the request's session, then the constant body
health_check(database_up) ==
    IF database_up THEN [status |-> 200, body |-> "status ok, database up", database_up |-> TRUE]
    ELSE [status |-> 500, body |-> "Internal Server Error", database_up |-> FALSE]

\* the object names of the artifacts
PredictionObject(id) == <<"predictions", id, "csv">>
MetadataObject(id) == <<"predictions", id, "meta.json">>
ValidationObject(id) == <<"validations", id, "json">>

\* the process before its first storage operation: _client is None
NewStore(bucket) ==
    [client |-> FALSE, constructed |-> 0, ensured |-> FALSE, handed |-> "none",
     bucket |-> bucket, objects |-> {}, uuid |-> 0, returned |-> {}, removed |-> {},
     answer |-> "none", health |-> NoAnswer]

\* cls._client = Minio(...): the constructor opens no connection
Minio(s) == [s EXCEPT !.client = TRUE, !.constructed = @ + 1]

\* _ensure_bucket: bucket_exists and make_bucket; up is whether the server
\* answers. The result: the store and whether the call raised.
ensure_bucket(s, up) ==
    IF up THEN [store |-> [s EXCEPT !.bucket = TRUE, !.ensured = TRUE], raised |-> FALSE]
    ELSE [store |-> s, raised |-> TRUE]

\* _get_client: the client is assigned before the bucket is ensured, and stays
\* assigned when _ensure_bucket raises
get_client(s, up) ==
    IF ~s.client
    THEN LET e == ensure_bucket(Minio(s), up)
         IN  [store |-> [e.store EXCEPT !.handed = IF e.raised THEN "raised" ELSE "client"],
              raised |-> e.raised]
    ELSE [store |-> [s EXCEPT !.handed = "client"], raised |-> FALSE]

\* save_file: put_object raises when the server does not answer or has no bucket
save_file(s, object_name, up) ==
    LET g == get_client(s, up)
    IN  IF g.raised THEN g
        ELSE IF up /\ g.store.bucket
        THEN [store |-> [g.store EXCEPT !.objects = @ \cup {object_name}], raised |-> FALSE]
        ELSE [store |-> g.store, raised |-> TRUE]

\* get_file: the content, None for an S3Error, or another exception let through
get_file(s, object_name, up) ==
    LET g == get_client(s, up)
    IN  [store |-> g.store,
         answer |-> IF g.raised \/ ~up THEN "raised"
                    ELSE IF g.store.bucket /\ object_name \in g.store.objects THEN "content"
                    ELSE "not_found"]

InitStorage ==
    /\ store \in {NewStore(bucket) : bucket \in BOOLEAN}
    /\ pair = Unused
    /\ metric = Unused
    /\ csv = Unused
    /\ query = Unused
    /\ db = Unused
    /\ reqs = Unused
    /\ DispatchIdle

StorageUnchanged == UNCHANGED <<dispatch_vars, pair, metric, csv, query, db, reqs>>

\* storage_service.save_validation(validation_data): the failure of save_file
\* is logged and the id returned all the same
SaveValidation(up) ==
    /\ store.uuid < MaxArtifacts
    /\ LET validation_id == store.uuid + 1
           f == save_file(store, ValidationObject(validation_id), up)
       IN  store' = [f.store EXCEPT !.uuid = validation_id,
                                    !.returned = @ \cup {ValidationObject(validation_id)},
                                    !.answer = "id"]
    /\ StorageUnchanged

\* storage_service.save_predictions(predictions, processing_time): the failure
\* of the CSV goes through, the failure of the metadata is passed over
SavePredictions(up, up_metadata) ==
    /\ store.uuid < MaxArtifacts
    /\ LET prediction_id == store.uuid + 1
           f == save_file(store, PredictionObject(prediction_id), up)
           g == save_file(f.store, MetadataObject(prediction_id), up_metadata)
       IN  store' = IF f.raised
                    THEN [f.store EXCEPT !.uuid = prediction_id, !.answer = "raised"]
                    ELSE [g.store EXCEPT !.uuid = prediction_id,
                                         !.returned = @ \cup {PredictionObject(prediction_id)},
                                         !.answer = "id"]
    /\ StorageUnchanged

\* storage_service.get_validation(validation_id)
GetValidation(validation_id, up) ==
    /\ LET g == get_file(store, ValidationObject(validation_id), up)
       IN  store' = [g.store EXCEPT !.answer = g.answer]
    /\ StorageUnchanged

\* storage_service.get_csv(prediction_id)
GetCsv(prediction_id, up) ==
    /\ LET g == get_file(store, PredictionObject(prediction_id), up)
       IN  store' = [g.store EXCEPT !.answer = g.answer]
    /\ StorageUnchanged

\* storage_service.cleanup_old(): old are the objects older than max_age_hours
CleanupOld(old, up) ==
    /\ LET g == get_client(store, up)
       IN  store' = IF g.raised \/ ~up \/ ~g.store.bucket
                    THEN [g.store EXCEPT !.answer = IF g.raised \/ ~up THEN "raised" ELSE "none"]
                    ELSE [g.store EXCEPT !.objects = @ \ old, !.removed = @ \cup old,
                                         !.answer = "none"]
    /\ StorageUnchanged

\* GET /api/health of a client of the application, as tests/test_health.py
\* does it: app.main is imported, then the request is served
GetHealth(database_up) ==
    /\ store' = [store EXCEPT !.health =
                    IF ImportApp THEN health_check(database_up)
                    ELSE [status |-> 0, body |-> "ImportError", database_up |-> database_up]]
    /\ StorageUnchanged

NextStorage ==
    \/ \E up \in BOOLEAN : SaveValidation(up)
    \/ \E up, up_metadata \in BOOLEAN : SavePredictions(up, up_metadata)
    \/ \E validation_id \in 1..MaxArtifacts, up \in BOOLEAN : GetValidation(validation_id, up)
    \/ \E prediction_id \in 1..MaxArtifacts, up \in BOOLEAN : GetCsv(prediction_id, up)
    \/ \E old \in SUBSET store.objects, up \in BOOLEAN : CleanupOld(old, up)
    \/ \E database_up \in BOOLEAN : GetHealth(database_up)

\* the storage operations of one process against a blob store that may be
\* down at any operation, and the health probe
SpecStorage == InitStorage /\ [][NextStorage]_vars

\* C22: the client is constructed at most once, and a call of _get_client
\* that returns the client does so after the bucket was ensured, also when an
\* earlier call failed at the bucket check
ClientLifecycle ==
    /\ store.constructed <= 1
    /\ store.handed = "client" => store.ensured

\* C23: every id save_validation or save_predictions returned names an
\* artifact that was written: it is in the store unless a cleanup removed it
ArtifactsRetrievable ==
    \A a \in store.returned : a \in store.objects \cup store.removed

\* C25: a health request made while the database answers gets 200 with the
\* body status ok, database up
HealthAnswered ==
    store.health.database_up
    => /\ store.health.status = 200
       /\ store.health.body = "status ok, database up"

====
